---- MODULE Spec2Model ----
(***************************************************************************)
(* Pet-creation orchestration of go-gin-api-server: the idempotency store  *)
(* (in-memory and PostgreSQL), the application service (inline variant),   *)
(* the Temporal activities, the persistence sequence / workflow and the    *)
(* orchestrator client.                                                    *)
(***************************************************************************)
EXTENDS Integers, Sequences, FiniteSets, TLC

(***************************************************************************)
(* Bounds of the model.                                                    *)
(***************************************************************************)
NumCallers == 3
MaxExecutions == 3      \* executions of the sync activity per pet
MaxClock == 5           \* the clock stops the repository writes of SpecSync here
NumRequests == 2        \* create requests received by the API process
MaxTags == 2            \* tags in the tag list of a fingerprinted command
MaxPartnerFailures == 3 \* Sync calls the partner fails before it accepts all calls
MaxAttempts == 6        \* attempts of one activity the runs of SpecWorkflow are followed for

Callers == 1..NumCallers
Keys == {"k1", "k2"}

VARIABLES
    records,    \* memory.IdempotencyStore.records : key -> IdempotencyRecord
    table,      \* rows of pet_idempotency_keys (primary key: key)
    now,        \* the time source of the stores
    call,       \* per caller: the store call in progress / its return
    impl,       \* the store implementation wired at startup: "memory" or "postgres"
    translateError, \* gorm.Config.TranslateError of the *gorm.DB given to the store
    pets,       \* the pet repository: pet id -> stored pet with its metadata
    exec,       \* per pet: the executions of the partner-sync activity
    mode,       \* the orchestrator wired by the API process: "inline" or "temporal"
    req,        \* per create request: its position and what it has returned
    runs,       \* the Temporal runs: workflow id -> the runs started under it
    fingerprints, \* per command slot: the command and its FingerprintAddPet
    partner     \* the partner system: the Sync calls it failed, the pets it accepted

storeVars == <<records, table, call, impl, translateError>>
createVars == <<mode, req, runs>>
\* the variables only the fingerprint and the retry specification change
restVars == <<fingerprints, partner>>
nonStoreVars == <<pets, exec, mode, req, runs, restVars>>
vars == <<records, table, now, call, impl, translateError, pets, exec, mode, req, runs,
         fingerprints, partner>>

(***************************************************************************)
(* ports.IdempotencyRecord and the errors of the stores.                   *)
(***************************************************************************)
IdempotencyRecord(key, requestHash, petID, createdAt, updatedAt) ==
    [Key |-> key, RequestHash |-> requestHash, PetID |-> petID,
     CreatedAt |-> createdAt, UpdatedAt |-> updatedAt]

\* a record as a caller passes it to Save: the timestamps are the zero time
\* (one payload, one with another hash, one with another pet)
Payloads == {<<"h1", 1>>, <<"h2", 1>>, <<"h1", 2>>}
NewRecords == {IdempotencyRecord(k, hp[1], hp[2], 0, 0) : k \in Keys, hp \in Payloads}

ErrNone == "nil"
ErrIdempotencyConflict == "idempotency conflict"
\* gorm.ErrDuplicatedKey (the translated error) and the driver's own error
\* for SQLSTATE 23505, which gorm returns when TranslateError is off
ErrDuplicatedKey == "duplicated key"
ErrUniqueViolation == "unique_violation (SQLSTATE 23505)"

\* a *IdempotencyRecord: <<>> is nil, <<r>> points to r
Nil == <<>>
Ptr(r) == <<r>>

\* the partner system before any Sync call
NoPartnerCalls == [failures |-> 0, synced |-> {}]

\* the two commands whose fingerprints are compared, none computed yet
CommandSlots == {"first", "second"}
NoFingerprints == [c \in CommandSlots |-> Nil]

Idle == [pc |-> "idle", op |-> "none", arg |-> IdempotencyRecord("", "", 0, 0, 0),
         unused |-> FALSE, viaDup |-> FALSE, ret |-> Nil, err |-> ErrNone]

(***************************************************************************)
(* memory.IdempotencyStore                                                 *)
(***************************************************************************)
\* a Get that finds no record
MemGetMiss(recs, key) == Nil

\* Get: the stored record for the key, or nil when absent
MemGetResult(recs, key) ==
    IF key \in DOMAIN recs THEN Ptr(recs[key]) ELSE Nil

\* a Save that replaces the stored record when the payload differs
MemSaveOverwrite(recs, record, t) ==
    LET stamped == [record EXCEPT !.CreatedAt = t, !.UpdatedAt = t]
    IN  IF record.Key \in DOMAIN recs
           /\ recs[record.Key].RequestHash = record.RequestHash
           /\ recs[record.Key].PetID = record.PetID
        THEN [recs |-> recs, ret |-> Ptr(recs[record.Key]), err |-> ErrNone, stamped |-> FALSE]
        ELSE [recs |-> [k \in DOMAIN recs \cup {record.Key} |->
                          IF k = record.Key THEN stamped ELSE recs[k]],
              ret |-> Ptr(stamped), err |-> ErrNone, stamped |-> TRUE]

\* a Save that returns the stamped record of an absent key without storing it
MemSaveNoInsert(recs, record, t) ==
    IF record.Key \in DOMAIN recs
    THEN MemSaveOverwrite(recs, recs[record.Key], t)
    ELSE [recs |-> recs,
          ret |-> Ptr([record EXCEPT !.CreatedAt = t, !.UpdatedAt = t]),
          err |-> ErrNone, stamped |-> TRUE]

\* a Save that stores the record of an absent key without its pet id
MemSaveDropsPetID(recs, record, t) ==
    MemSaveOverwrite(recs, [record EXCEPT !.PetID = 0], t)

\* Save: the body executed under s.mu
MemSaveResult(recs, record, t) ==
    IF record.Key \in DOMAIN recs
    THEN LET existing == recs[record.Key]
         IN  IF existing.RequestHash # record.RequestHash \/ existing.PetID # record.PetID
             THEN [recs |-> recs, ret |-> Ptr(existing), err |-> ErrIdempotencyConflict,
                   stamped |-> FALSE]
             ELSE [recs |-> recs, ret |-> Ptr(existing), err |-> ErrNone, stamped |-> FALSE]
    ELSE LET stamped == [record EXCEPT !.CreatedAt = t, !.UpdatedAt = t]
         IN  [recs |-> [k \in DOMAIN recs \cup {record.Key} |->
                          IF k = record.Key THEN stamped ELSE recs[k]],
              ret |-> Ptr(stamped), err |-> ErrNone, stamped |-> TRUE]

\* a caller enters Get(key)
MemGet(c, key) ==
    /\ impl = "memory"
    /\ call[c].pc = "idle"
    /\ call' = [call EXCEPT ![c] =
           [Idle EXCEPT !.pc = "done", !.op = "Get", !.arg.Key = key,
                        !.ret = MemGetResult(records, key)]]
    /\ UNCHANGED <<records, table, now, impl, translateError>>
    /\ UNCHANGED nonStoreVars

\* a caller enters Save(record) and waits for s.mu
MemSaveCall(c, record) ==
    /\ impl = "memory"
    /\ call[c].pc = "idle"
    /\ call' = [call EXCEPT ![c] =
           [Idle EXCEPT !.pc = "save", !.op = "Save", !.arg = record,
                        !.unused = (record.Key \notin DOMAIN records)]]
    /\ UNCHANGED <<records, table, now, impl, translateError>>
    /\ UNCHANGED nonStoreVars

\* the caller holds s.mu and runs the body of Save
MemSave(c) ==
    /\ impl = "memory"
    /\ call[c].pc = "save"
    /\ LET out == MemSaveResult(records, call[c].arg, now)
       IN  /\ records' = out.recs
           /\ now' = IF out.stamped THEN now + 1 ELSE now
           /\ call' = [call EXCEPT ![c].pc = "done", ![c].ret = out.ret,
                                         ![c].err = out.err,
                                         ![c].viaDup = ~out.stamped]
    /\ UNCHANGED <<table, impl, translateError>>
    /\ UNCHANGED nonStoreVars

(***************************************************************************)
(* postgres.IdempotencyStore                                               *)
(***************************************************************************)
\* Get: SELECT ... WHERE key = ? ; gorm.ErrRecordNotFound becomes nil, nil
PgGetResult(tbl, key) ==
    IF key \in DOMAIN tbl THEN Ptr(tbl[key]) ELSE Nil

\* db.Create(&dbRecord).Error of gorm: the INSERT succeeds when the primary
\* key is free; on a taken key the driver's error is translated to
\* gorm.ErrDuplicatedKey only when the connection has TranslateError set
GormCreateError(tbl, key, translate) ==
    IF key \notin DOMAIN tbl THEN ErrNone
    ELSE IF translate THEN ErrDuplicatedKey ELSE ErrUniqueViolation

\* Save, lines 49-59: the follow-up of a duplicated key, given what Get found
PgCompare(existing, record) ==
    IF existing = Nil
    THEN [ret |-> Nil, err |-> ErrNone]      \* the inner err of Get, which is nil
    ELSE IF existing[1].RequestHash # record.RequestHash
              \/ existing[1].PetID # record.PetID
         THEN [ret |-> existing, err |-> ErrIdempotencyConflict]
         ELSE [ret |-> existing, err |-> ErrNone]

\* a caller runs Get(key): one SELECT
PgGet(c, key) ==
    /\ impl = "postgres"
    /\ call[c].pc = "idle"
    /\ call' = [call EXCEPT ![c] =
           [Idle EXCEPT !.pc = "done", !.op = "Get", !.arg.Key = key,
                        !.ret = PgGetResult(table, key)]]
    /\ UNCHANGED <<records, table, now, impl, translateError>>
    /\ UNCHANGED nonStoreVars

\* a caller enters Save(record)
PgSaveCall(c, record) ==
    /\ impl = "postgres"
    /\ call[c].pc = "idle"
    /\ call' = [call EXCEPT ![c] =
           [Idle EXCEPT !.pc = "create", !.op = "Save", !.arg = record,
                        !.unused = (record.Key \notin DOMAIN table)]]
    /\ UNCHANGED <<records, table, now, impl, translateError>>
    /\ UNCHANGED nonStoreVars

\* Save, line 47: the INSERT statement, and the returns that need no lookup
PgCreate(c) ==
    /\ impl = "postgres"
    /\ call[c].pc = "create"
    /\ LET record == call[c].arg
           err == GormCreateError(table, record.Key, translateError)
           \* gorm stamps the zero CreatedAt / UpdatedAt on Create
           stamped == [record EXCEPT !.CreatedAt = now, !.UpdatedAt = now]
       IN  IF err = ErrNone
           THEN /\ table' = [k \in DOMAIN table \cup {record.Key} |->
                               IF k = record.Key THEN stamped ELSE table[k]]
                /\ now' = now + 1
                /\ call' = [call EXCEPT ![c].pc = "done", ![c].ret = Ptr(stamped),
                                            ![c].err = ErrNone]
           ELSE IF err = ErrDuplicatedKey
           THEN /\ call' = [call EXCEPT ![c].pc = "lookup", ![c].viaDup = TRUE]
                /\ UNCHANGED <<table, now>>
           ELSE /\ call' = [call EXCEPT ![c].pc = "done", ![c].ret = Nil,
                                            ![c].err = err, ![c].viaDup = TRUE]
                /\ UNCHANGED <<table, now>>
    /\ UNCHANGED <<records, impl, translateError>>
    /\ UNCHANGED nonStoreVars

\* Save, lines 49-59: s.Get of the duplicated key and the comparison
PgLookup(c) ==
    /\ impl = "postgres"
    /\ call[c].pc = "lookup"
    /\ LET out == PgCompare(PgGetResult(table, call[c].arg.Key), call[c].arg)
       IN  call' = [call EXCEPT ![c].pc = "done", ![c].ret = out.ret,
                                   ![c].err = out.err]
    /\ UNCHANGED <<records, table, now, impl, translateError>>
    /\ UNCHANGED nonStoreVars

(***************************************************************************)
(* The stores under concurrent callers.                                    *)
(***************************************************************************)
StoreInit ==
    /\ records = << >>
    /\ table = << >>
    /\ now = 1
    /\ call = [c \in Callers |-> Idle]
    /\ \/ impl = "memory" /\ translateError = FALSE
       \/ impl = "postgres" /\ translateError \in BOOLEAN
    /\ pets = << >>
    /\ exec = << >>
    /\ mode = "inline" /\ req = << >> /\ runs = << >>
    /\ fingerprints = NoFingerprints
    /\ partner = NoPartnerCalls

StoreNext ==
    \E c \in Callers :
        \/ \E k \in Keys : MemGet(c, k)
        \/ \E r \in NewRecords : MemSaveCall(c, r)
        \/ MemSave(c)
        \/ \E k \in Keys : PgGet(c, k)
        \/ \E r \in NewRecords : PgSaveCall(c, r)
        \/ PgCreate(c)
        \/ PgLookup(c)

SpecStore == StoreInit /\ [][StoreNext]_vars

(***************************************************************************)
(* Claims about the idempotency stores (specification SpecStore).          *)
(***************************************************************************)
SamePair(a, b) == a.RequestHash = b.RequestHash /\ a.PetID = b.PetID

\* the record a store holds for a key, as a pointer
Stored(key) ==
    IF impl = "memory" THEN MemGetResult(records, key) ELSE PgGetResult(table, key)

\* C3: in both store implementations a stored record is never removed and
\* its (requestHash, petID) pair is never changed by any Get or Save step.
C3_StoredPairIsStable ==
    [][ /\ \A k \in DOMAIN records :
             k \in DOMAIN records' /\ SamePair(records'[k], records[k])
        /\ \A k \in DOMAIN table :
             k \in DOMAIN table' /\ SamePair(table'[k], table[k]) ]_vars

\* C3 witness: a Save with another payload for a stored key has returned
C3_ConflictingSaveReturned ==
    \E c \in Callers :
        /\ call[c].pc = "done" /\ call[c].op = "Save"
        /\ call[c].err = ErrIdempotencyConflict
        /\ Stored(call[c].arg.Key) # Nil
        /\ ~SamePair(Stored(call[c].arg.Key)[1], call[c].arg)

\* C8: a Save that was called while its key was unused and lost the insert
\* race returns the stored record, with no error when its payload equals the
\* stored one and with IdempotencyConflict otherwise.
C8_RaceLoserGetsStoredRecord ==
    \A c \in Callers :
        (call[c].pc = "done" /\ call[c].op = "Save"
            /\ call[c].unused /\ call[c].viaDup)
        => /\ Stored(call[c].arg.Key) # Nil
           /\ call[c].ret = Stored(call[c].arg.Key)
           /\ call[c].err = IF SamePair(call[c].ret[1], call[c].arg)
                            THEN ErrNone ELSE ErrIdempotencyConflict

\* caller c's Save returns in this step
SaveReturns(c) ==
    call[c].op = "Save" /\ call[c].pc # "done" /\ call'[c].pc = "done"

\* C18: a Save of a record whose key was already stored with the same
\* requestHash and petID returns the stored record with no error and leaves
\* the store unchanged, the record's createdAt and updatedAt included.
C18_ReplaySaveReturnsStored ==
    [][ \A c \in Callers :
          (/\ SaveReturns(c) /\ ~call[c].unused
           /\ Stored(call[c].arg.Key) # Nil
           /\ SamePair(Stored(call[c].arg.Key)[1], call[c].arg))
          => /\ call'[c].err = ErrNone
             /\ call'[c].ret = Stored(call[c].arg.Key)
             /\ records' = records /\ table' = table ]_vars

\* caller c's Get returns in this step
GetReturns(c) ==
    call[c].pc = "idle" /\ call'[c].pc = "done" /\ call'[c].op = "Get"

\* caller d's Save has returned after inserting its record
Inserted(d) ==
    /\ call[d].pc = "done" /\ call[d].op = "Save"
    /\ call[d].err = ErrNone /\ ~call[d].viaDup

\* C19: a Save that finds no stored record for its key inserts the record
\* and returns it with no error and with createdAt and updatedAt set; a Get
\* of that key afterwards returns a record with the same key, requestHash
\* and petID.
C19_FreshSaveInsertsAndGetFindsIt ==
    [][ \A c \in Callers :
          /\ (SaveReturns(c) /\ Stored(call[c].arg.Key) = Nil)
             => /\ call'[c].err = ErrNone
                /\ call'[c].ret # Nil
                /\ call'[c].ret = Stored(call[c].arg.Key)'
                /\ call'[c].ret[1].Key = call[c].arg.Key
                /\ SamePair(call'[c].ret[1], call[c].arg)
                /\ call'[c].ret[1].CreatedAt # 0
                /\ call'[c].ret[1].UpdatedAt # 0
          /\ \A d \in Callers :
                (GetReturns(c) /\ Inserted(d)
                   /\ call'[c].arg.Key = call[d].arg.Key)
                => /\ call'[c].ret # Nil
                   /\ call'[c].ret[1].Key = call[d].arg.Key
                   /\ SamePair(call'[c].ret[1], call[d].arg) ]_vars

\* C19 witness: a Save inserted its record and a later Get of the key
\* returned that record
C19_GetAfterInsertReturned ==
    \E c, d \in Callers :
        /\ Inserted(d) /\ call[d].ret # Nil /\ call[d].ret[1].CreatedAt # 0
        /\ call[c].pc = "done" /\ call[c].op = "Get"
        /\ call[c].arg.Key = call[d].arg.Key
        /\ call[c].ret = call[d].ret

(***************************************************************************)
(* domain.Pet, the pet repository and the partner-sync activity.           *)
(***************************************************************************)
PetIDs == {1, 2}
PetNames == {"Rex", "Buddy"}

ErrNotFound == "pet not found"
ErrRepository == "repository unavailable"
ErrPartner == "partner unavailable"

partnerSyncHashKey == "partner_sync_hash"

\* a Go string held in an attribute map, and the zero string a lookup of a
\* missing key yields
Str(s) == <<"str", s>>
EmptyString == Str("")

\* domain.NewPet followed by UpdateStatus(""): no external reference yet
NewPet(id, name) ==
    [ID |-> id, Name |-> name, Status |-> "available", ExternalRef |-> Nil]

\* memory.Repository.Save: insert or replace by pet id; CreatedAt is kept
\* from the replaced entry, UpdatedAt is the time of the write
RepoSave(repo, pet, t) ==
    LET created == IF pet.ID \in DOMAIN repo THEN repo[pet.ID].CreatedAt ELSE t
        stored == [Pet |-> pet, CreatedAt |-> created, UpdatedAt |-> t]
    IN  [k \in DOMAIN repo \cup {pet.ID} |-> IF k = pet.ID THEN stored ELSE repo[k]]

\* memory.Repository.GetByID
RepoGetByID(repo, id) ==
    IF id \in DOMAIN repo
    THEN [ret |-> Ptr(repo[id]), err |-> ErrNone]
    ELSE [ret |-> Nil, err |-> ErrNotFound]

\* the attributes of the external reference, as a map (empty when there is none)
Attributes(p) ==
    IF p.ExternalRef = Nil THEN << >> ELSE p.ExternalRef[1].Attributes

\* computePartnerSyncHash: SHA-256 of the canonical JSON of id, name, status
\* and ALL attributes of the external reference sorted by key (the sorted
\* list is the canonical form of the set of pairs).  The digest is kept as
\* the tagged payload: distinct payloads have distinct digests.
computePartnerSyncHash(p) ==
    <<"sha256", [id |-> p.ID, name |-> p.Name, status |-> p.Status,
                 attributes |-> {<<k, Attributes(p)[k]>> : k \in DOMAIN Attributes(p)}]>>

\* a skip for every pet that stores a hash, whatever the hash
alreadySyncedOnce(hash, p) ==
    p.ExternalRef # Nil /\ partnerSyncHashKey \in DOMAIN Attributes(p)

\* alreadySynced: the stored partner_sync_hash equals the computed hash
alreadySynced(hash, p) ==
    IF p.ExternalRef = Nil THEN FALSE
    ELSE (IF partnerSyncHashKey \in DOMAIN Attributes(p)
          THEN Attributes(p)[partnerSyncHashKey] ELSE EmptyString) = hash

\* updatePartnerSyncHash: creates the external reference when missing and
\* sets attributes[partner_sync_hash] = hash
updatePartnerSyncHash(hash, p) ==
    LET ref == IF p.ExternalRef = Nil
               THEN [Provider |-> "partner", ID |-> p.ID, Attributes |-> << >>]
               ELSE p.ExternalRef[1]
        attrs == [k \in DOMAIN ref.Attributes \cup {partnerSyncHashKey} |->
                    IF k = partnerSyncHashKey THEN hash ELSE ref.Attributes[k]]
    IN  [p EXCEPT !.ExternalRef = Ptr([ref EXCEPT !.Attributes = attrs])]

\* syncHeartbeat: the zero value, and the details recorded at line 121
NoHeartbeat == [Completed |-> FALSE, Hash |-> EmptyString]

\* an attempt that does not look at the heartbeat details of a prior attempt
SyncPetWithPartnerWithoutHeartbeat(repo, id, hb, partnerErr, saveErr, t) ==
    LET keep(calls, err) == [pets |-> repo, calls |-> calls, err |-> err, hb |-> hb,
                             wrote |-> FALSE]
    IN  IF RepoGetByID(repo, id).err # ErrNone THEN keep(0, RepoGetByID(repo, id).err)
        ELSE LET pet == RepoGetByID(repo, id).ret[1].Pet
                 hash == computePartnerSyncHash(pet)
             IN  IF alreadySynced(hash, pet) THEN keep(0, ErrNone)
                 ELSE IF partnerErr # ErrNone THEN keep(1, partnerErr)
                 ELSE IF saveErr # ErrNone THEN keep(1, saveErr)
                 ELSE [pets |-> RepoSave(repo, updatePartnerSyncHash(hash, pet), t),
                       calls |-> 1, err |-> ErrNone,
                       hb |-> [Completed |-> TRUE, Hash |-> hash],
                       wrote |-> TRUE]

\* an attempt that records the completion heartbeat as soon as the partner
\* has accepted the Sync call, before the hash is saved
SyncPetWithPartnerHeartbeatBeforeSave(repo, id, hb, partnerErr, saveErr, t) ==
    LET keep(calls, err) == [pets |-> repo, calls |-> calls, err |-> err, hb |-> hb,
                             wrote |-> FALSE]
    IN  IF hb.Completed THEN keep(0, ErrNone)
        ELSE IF RepoGetByID(repo, id).err # ErrNone THEN keep(0, RepoGetByID(repo, id).err)
        ELSE LET pet == RepoGetByID(repo, id).ret[1].Pet
                 hash == computePartnerSyncHash(pet)
             IN  IF alreadySynced(hash, pet) THEN keep(0, ErrNone)
                 ELSE IF partnerErr # ErrNone THEN keep(1, partnerErr)
                 ELSE IF saveErr # ErrNone
                 THEN [pets |-> repo, calls |-> 1, err |-> saveErr,
                       hb |-> [Completed |-> TRUE, Hash |-> hash], wrote |-> FALSE]
                 ELSE [pets |-> RepoSave(repo, updatePartnerSyncHash(hash, pet), t),
                       calls |-> 1, err |-> ErrNone,
                       hb |-> [Completed |-> TRUE, Hash |-> hash],
                       wrote |-> TRUE]

\* an attempt that saves the hash although the partner refused the Sync call
SyncPetWithPartnerSavesOnError(repo, id, hb, partnerErr, saveErr, t) ==
    LET keep(calls, err) == [pets |-> repo, calls |-> calls, err |-> err, hb |-> hb,
                             wrote |-> FALSE]
    IN  IF hb.Completed THEN keep(0, ErrNone)
        ELSE IF RepoGetByID(repo, id).err # ErrNone THEN keep(0, RepoGetByID(repo, id).err)
        ELSE LET pet == RepoGetByID(repo, id).ret[1].Pet
                 hash == computePartnerSyncHash(pet)
             IN  IF alreadySynced(hash, pet) THEN keep(0, ErrNone)
                 ELSE IF saveErr # ErrNone
                 THEN keep(1, IF partnerErr # ErrNone THEN partnerErr ELSE saveErr)
                 ELSE [pets |-> RepoSave(repo, updatePartnerSyncHash(hash, pet), t),
                       calls |-> 1, err |-> partnerErr,
                       hb |-> IF partnerErr # ErrNone THEN hb
                              ELSE [Completed |-> TRUE, Hash |-> hash],
                       wrote |-> TRUE]

\* Activities.SyncPetWithPartner, one attempt with the partner configured:
\* hb are the heartbeat details of a prior attempt, partnerErr the outcome of
\* partnerSync.Sync, saveErr the outcome of repo.Save.  Yields the repository
\* afterwards, the number of Sync invocations, the returned error and the
\* heartbeat details recorded.
SyncPetWithPartner(repo, id, hb, partnerErr, saveErr, t) ==
    LET keep(calls, err) == [pets |-> repo, calls |-> calls, err |-> err, hb |-> hb,
                             wrote |-> FALSE]
    IN  IF hb.Completed THEN keep(0, ErrNone)
        ELSE IF RepoGetByID(repo, id).err # ErrNone THEN keep(0, RepoGetByID(repo, id).err)
        ELSE LET pet == RepoGetByID(repo, id).ret[1].Pet
                 hash == computePartnerSyncHash(pet)
             IN  IF alreadySynced(hash, pet) THEN keep(0, ErrNone)
                 ELSE IF partnerErr # ErrNone THEN keep(1, partnerErr)
                 ELSE IF saveErr # ErrNone THEN keep(1, saveErr)
                 ELSE [pets |-> RepoSave(repo, updatePartnerSyncHash(hash, pet), t),
                       calls |-> 1, err |-> ErrNone,
                       hb |-> [Completed |-> TRUE, Hash |-> hash],
                       wrote |-> TRUE]

(***************************************************************************)
(* The partner-sync activity executed repeatedly on stored pets            *)
(* (specification SpecSync).  The retry policy is syncOptions.             *)
(***************************************************************************)
SyncMaximumAttempts == 3

NoExecution == [attempt |-> 0, hb |-> NoHeartbeat, calls |-> 0, hist |-> << >>]

\* someone else writes the pet through the service: AddPet when it is new,
\* UpdatePet (a rename, the external reference is kept) when it exists
OutsideSave(id, name) ==
    /\ now < MaxClock
    /\ exec[id].attempt = 0
    /\ LET pet == IF id \in DOMAIN pets
                  THEN [pets[id].Pet EXCEPT !.Name = name]
                  ELSE NewPet(id, name)
       IN  pets' = RepoSave(pets, pet, now)
    /\ now' = now + 1
    /\ exec' = [exec EXCEPT ![id].hist = << >>]
    /\ UNCHANGED <<storeVars, createVars, restVars>>

\* one attempt of SyncPetWithPartner for the pet.  delivered = FALSE is an
\* attempt whose completion the runtime did not receive (worker lost after
\* the heartbeat): the runtime retries it with the recorded heartbeat.
SyncAttempt(id, partnerErr, saveErr, delivered) ==
    /\ now < MaxClock
    /\ Len(exec[id].hist) < MaxExecutions
    /\ LET e == exec[id]
           out == SyncPetWithPartner(pets, id, e.hb, partnerErr, saveErr, now)
           calls == e.calls + out.calls
       IN  /\ pets' = out.pets
           /\ now' = IF out.wrote THEN now + 1 ELSE now
           /\ exec' = [exec EXCEPT ![id] =
                IF out.err = ErrNone /\ delivered
                THEN \* the execution is complete
                     [NoExecution EXCEPT !.hist = Append(e.hist,
                         [calls |-> calls, attempts |-> e.attempt + 1])]
                ELSE IF e.attempt + 1 >= SyncMaximumAttempts
                THEN \* the retry policy is exhausted: the execution failed
                     [NoExecution EXCEPT !.hist = e.hist]
                ELSE [e EXCEPT !.attempt = e.attempt + 1, !.hb = out.hb,
                               !.calls = calls]]
    /\ UNCHANGED <<storeVars, createVars, restVars>>

SyncInit ==
    /\ records = << >> /\ table = << >> /\ now = 1
    /\ call = [c \in Callers |-> Idle]
    /\ impl = "memory" /\ translateError = FALSE
    /\ pets = << >>
    /\ exec = [id \in PetIDs |-> NoExecution]
    /\ mode = "temporal" /\ req = << >> /\ runs = << >>
    /\ fingerprints = NoFingerprints
    /\ partner = NoPartnerCalls

SyncNext ==
    \/ \E id \in PetIDs, name \in PetNames : OutsideSave(id, name)
    \/ \E id \in PetIDs, partnerErr \in {ErrNone, ErrPartner},
          saveErr \in {ErrNone, ErrRepository}, delivered \in BOOLEAN :
              SyncAttempt(id, partnerErr, saveErr, delivered)

SpecSync == SyncInit /\ [][SyncNext]_vars

\* C6: two successive executions of the sync activity for one pet, each
\* completed by its first attempt (so without any heartbeat of an earlier
\* attempt) and with no write to the pet by anyone else in between, invoke
\* the partner's Sync at most once in total.
C6_SecondExecutionIsDeduplicated ==
    \A id \in PetIDs :
        \A i \in 1..(Len(exec[id].hist) - 1) :
            (exec[id].hist[i].attempts = 1 /\ exec[id].hist[i + 1].attempts = 1)
            => exec[id].hist[i].calls + exec[id].hist[i + 1].calls <= 1

\* the stored pet was synced successfully and a field that enters the hash
\* (its name) was changed afterwards: the payload of the stored hash has
\* another name than the pet
ChangedSinceSync(id) ==
    /\ id \in DOMAIN pets
    /\ pets[id].Pet.ExternalRef # Nil
    /\ partnerSyncHashKey \in DOMAIN Attributes(pets[id].Pet)
    /\ Attributes(pets[id].Pet)[partnerSyncHashKey][2].name # pets[id].Pet.Name

\* this step is the first attempt of an execution of the sync activity for id
FirstSyncAttempt(id) ==
    /\ exec[id].attempt = 0
    /\ \/ exec'[id].attempt = 1
       \/ Len(exec'[id].hist) = Len(exec[id].hist) + 1

\* the Sync invocations of the attempt made in this step
SyncCallsOfFirstAttempt(id) ==
    IF exec'[id].attempt = 1 THEN exec'[id].calls
    ELSE exec'[id].hist[Len(exec'[id].hist)].calls

\* C24: after a successful sync of a pet, when a field that enters the
\* content hash is changed and the sync activity is executed again, the
\* partner adapter is invoked again.
C24_ChangedPetIsSyncedAgain ==
    [][ \A id \in PetIDs :
          (FirstSyncAttempt(id) /\ ChangedSinceSync(id))
          => SyncCallsOfFirstAttempt(id) = 1 ]_vars

\* C24 witness: a pet was synced, renamed and synced again by an execution
\* that invoked the partner: the payload of its stored hash carries the hash
\* of the first sync, taken over another name
C24_ResyncedAfterRename ==
    \E id \in DOMAIN pets :
        /\ exec[id].attempt = 0 /\ Len(exec[id].hist) > 0
        /\ exec[id].hist[Len(exec[id].hist)].calls = 1
        /\ pets[id].Pet.ExternalRef # Nil
        /\ partnerSyncHashKey \in DOMAIN Attributes(pets[id].Pet)
        /\ LET h == Attributes(pets[id].Pet)[partnerSyncHashKey]
           IN  /\ h[2].name = pets[id].Pet.Name
               /\ \E kv \in h[2].attributes :
                     kv[1] = partnerSyncHashKey /\ kv[2][2].name # h[2].name

\* what an attempt given the completed heartbeat hb returns: success, with
\* the repository as it was, no Sync invocation and nothing recorded
ReturnsImmediately(out, repo, hb) ==
    /\ out.err = ErrNone /\ out.calls = 0
    /\ out.pets = repo /\ ~out.wrote /\ out.hb = hb

\* the execution of the sync activity for id makes an attempt in this step
\* that was given a completed heartbeat
AttemptAfterCompletion(id) ==
    exec[id].hb.Completed /\ exec'[id] # exec[id]

\* C25: when the heartbeat details left by a prior attempt of the same
\* execution of the sync activity report completed, the attempt returns
\* success immediately: it does not reload the pet, call the partner
\* adapter or write to the repository.
C25_CompletedHeartbeatReturnsImmediately ==
    /\ [](\A id \in PetIDs :
            exec[id].hb.Completed
            => \A partnerErr \in {ErrNone, ErrPartner}, saveErr \in {ErrNone, ErrRepository} :
                  ReturnsImmediately(
                      SyncPetWithPartner(pets, id, exec[id].hb, partnerErr, saveErr, now),
                      pets, exec[id].hb))
    /\ [][ \A id \in PetIDs :
             AttemptAfterCompletion(id)
             => /\ pets' = pets /\ now' = now
                /\ \/ /\ exec'[id].attempt = exec[id].attempt + 1
                      /\ exec'[id].calls = exec[id].calls
                      /\ exec'[id].hb = exec[id].hb
                   \/ /\ exec'[id].attempt = 0
                      /\ exec'[id].hist = Append(exec[id].hist,
                            [calls |-> exec[id].calls, attempts |-> exec[id].attempt + 1])
                   \/ /\ exec[id].attempt + 1 >= SyncMaximumAttempts
                      /\ exec'[id] = [NoExecution EXCEPT !.hist = exec[id].hist] ]_vars

\* C25 witness: the first attempt recorded the completion heartbeat and its
\* return was lost; the second attempt was given that heartbeat and has
\* returned, with the one Sync invocation of the first attempt
C25_RetriedAfterCompletion ==
    \E id \in DOMAIN pets :
        /\ exec[id].attempt = 2 /\ exec[id].hb.Completed
        /\ exec[id].calls = 1

\* the repository holds hash h as the sync hash of pet id
StoresSyncHash(repo, id, h) ==
    /\ id \in DOMAIN repo
    /\ repo[id].Pet.ExternalRef # Nil
    /\ partnerSyncHashKey \in DOMAIN Attributes(repo[id].Pet)
    /\ Attributes(repo[id].Pet)[partnerSyncHashKey] = h

\* C26: a completion heartbeat is recorded only after the partner adapter's
\* Sync has succeeded and the new hash has been saved on the pet's external
\* reference: when a heartbeat with completed = true and hash h is recorded,
\* the repository has stored h as that pet's sync hash.
C26_HeartbeatOnlyAfterHashSaved ==
    /\ [](\A id \in PetIDs :
            \A partnerErr \in {ErrNone, ErrPartner}, saveErr \in {ErrNone, ErrRepository} :
               LET out == SyncPetWithPartner(pets, id, exec[id].hb, partnerErr, saveErr, now)
               IN  (out.hb.Completed /\ ~exec[id].hb.Completed)
                   => /\ partnerErr = ErrNone /\ saveErr = ErrNone
                      /\ out.calls = 1 /\ out.wrote
                      /\ StoresSyncHash(out.pets, id, out.hb.Hash))
    /\ [][ \A id \in PetIDs :
             (~exec[id].hb.Completed /\ exec'[id].hb.Completed)
             => /\ StoresSyncHash(pets', id, exec'[id].hb.Hash)
                /\ exec'[id].calls = exec[id].calls + 1 ]_vars

\* C26 witness: the first attempt of an execution has recorded the
\* completion heartbeat, and the repository stores its hash for the pet
C26_HeartbeatRecorded ==
    \E id \in DOMAIN pets :
        /\ exec[id].attempt = 1 /\ exec[id].hb.Completed
        /\ StoresSyncHash(pets, id, exec[id].hb.Hash)

\* C29: when the pet is not found as the partner-sync activity reloads it,
\* the not-found error is surfaced directly: the activity is attempted
\* exactly once and is not retried.
C29_NotFoundNotRetried ==
    \A id \in PetIDs :
        (id \notin DOMAIN pets /\ RepoGetByID(pets, id).err = ErrNotFound)
        => exec[id].attempt = 0

(***************************************************************************)
(* Pet creation: the create requests of the API process, the inline        *)
(* orchestrator with the service and its observability decorator, the      *)
(* Temporal orchestrator with the workflow and its activities              *)
(* (specification SpecCreate).                                             *)
(***************************************************************************)
Requests == 1..NumRequests

ErrPartnerSync == "partner sync failed"
ErrAlreadyStarted == "workflow execution already started"

\* types.AddPetInput: the mutation (id, name, no tag list, no external
\* reference) and the idempotency key
AddPetInput(id, name, key) ==
    [ID |-> id, Name |-> name, Tags |-> Nil, ExternalReference |-> Nil,
     IdempotencyKey |-> key]

\* the commands received, each with the trace id of its request context:
\* one keyed command, a second command under the same key, and an unkeyed
\* one for the same pet
Inputs ==
    { <<AddPetInput(1, "Rex", "k1"), "t1">>,
      <<AddPetInput(2, "Buddy", "k1"), "t1">>,
      <<AddPetInput(1, "Rex", ""), "t1">> }

\* strings.TrimSpace on the keys of the model
TrimSpace(s) == IF s \in {"", " "} THEN "" ELSE s

\* types.TagInput, and a *[]TagInput: nil or a list of up to MaxTags tags
TagInput(id, name) == [ID |-> id, Name |-> name]
TagInputs == {TagInput(1, "calm"), TagInput(2, "young")}
TagLists == {Nil} \cup {Ptr(l) : l \in UNION {[1..n -> TagInputs] : n \in 0..MaxTags}}

\* the attribute keys of the model in the order of Go's string comparison,
\* and the comparison attrs[i].Key < attrs[j].Key on them
AttributeKeys == <<"color", "size">>
AttributeValues == {"x", "y"}
KeyLess(a, b) ==
    \E i, j \in 1..Len(AttributeKeys) :
        i < j /\ AttributeKeys[i] = a /\ AttributeKeys[j] = b

\* types.ExternalReferenceInput with its Attributes map[string]string, and
\* a *ExternalReferenceInput: nil or a reference
ExternalReferenceInput(provider, id, attributes) ==
    [Provider |-> provider, ID |-> id, Attributes |-> attributes]
AttributeMaps ==
    UNION {[ks -> AttributeValues] :
             ks \in SUBSET {AttributeKeys[i] : i \in 1..Len(AttributeKeys)}}
ExternalReferences ==
    {Nil} \cup {Ptr(ExternalReferenceInput("partner", "ext-1", m)) : m \in AttributeMaps}

\* the orders in which a range over the map may yield its keys: Go leaves
\* the iteration order of a map unspecified
RangeOrders(m) ==
    {o \in [1..Cardinality(DOMAIN m) -> DOMAIN m] :
        \A i, j \in DOMAIN o : i # j => o[i] # o[j]}

\* normalizeTags: nil stays nil, otherwise every tag is copied, in the
\* order of the input list, as normalizedTag{ID, Name}
normalizeTags(tags) ==
    IF tags = Nil THEN Nil
    ELSE Ptr([i \in 1..Len(tags[1]) |-> [id |-> tags[1][i].ID, name |-> tags[1][i].Name]])

\* sort.Slice(attrs, less by Key): the keys of a map are distinct, so the
\* result is the one list of the entries in ascending key order
RECURSIVE insertByKey(_, _)
insertByKey(kv, sorted) ==
    IF sorted = << >> THEN <<kv>>
    ELSE IF KeyLess(kv.key, Head(sorted).key) THEN <<kv>> \o sorted
    ELSE <<Head(sorted)>> \o insertByKey(kv, Tail(sorted))

RECURSIVE sortSliceByKey(_)
sortSliceByKey(attrs) ==
    IF attrs = << >> THEN << >>
    ELSE insertByKey(Head(attrs), sortSliceByKey(Tail(attrs)))

\* a normalization that leaves the attributes as the range filled them
normalizeExternalReferenceInRangeOrder(ref, order) ==
    IF ref = Nil THEN Nil
    ELSE Ptr([provider |-> ref[1].Provider, id |-> ref[1].ID,
              attributes |-> [i \in 1..Len(order) |->
                                [key |-> order[i], value |-> ref[1].Attributes[order[i]]]]])

\* normalizeExternalReference: the attributes are appended in the order the
\* range over the map yields them (order) and then sorted by key
normalizeExternalReference(ref, order) ==
    IF ref = Nil THEN Nil
    ELSE LET attrs == [i \in 1..Len(order) |->
                         [key |-> order[i], value |-> ref[1].Attributes[order[i]]]]
         IN  Ptr([provider |-> ref[1].Provider, id |-> ref[1].ID,
                  attributes |-> sortSliceByKey(attrs)])

\* normalizeAddPetInput: the fields of the mutation, the idempotency key is
\* not among them
normalizeAddPetInput(input, order) ==
    [id |-> input.ID, name |-> input.Name,
     tags |-> normalizeTags(input.Tags),
     externalReference |-> normalizeExternalReference(input.ExternalReference, order)]

\* json.Marshal of normalizedAddPetInput: the fields in the order of the
\* struct, a nil pointer as null, a slice element by element in its order
jsonMarshal(normalized) ==
    <<"json", normalized.id, normalized.name, normalized.tags,
      normalized.externalReference>>

\* FingerprintAddPet: SHA-256 of the JSON of the normalized input; order is
\* the order in which the range over the external reference's attributes
\* runs (the empty order for a command without attributes).  The digest is
\* kept as the tagged payload: distinct payloads have distinct digests.
FingerprintAddPet(input, order) ==
    <<"sha256", jsonMarshal(normalizeAddPetInput(input, order))>>

\* hashIdempotencyKey: the first 8 bytes of SHA-256(key), hex-encoded
hashIdempotencyKey(key) == <<"sha256[:8]", key>>

\* workflowTraceComponent: the trace id, or "fallback-<UnixNano>"
workflowTraceComponent(trace, nano) ==
    IF trace # "" THEN [kind |-> "trace", id |-> trace, nano |-> 0]
    ELSE [kind |-> "fallback", id |-> "", nano |-> nano]

\* buildPetCreationWorkflowID
buildPetCreationWorkflowID(input, traceComponent, nano) ==
    IF TrimSpace(input.IdempotencyKey) # ""
    THEN [format |-> "pet-creation-idem-%s",
          key |-> hashIdempotencyKey(TrimSpace(input.IdempotencyKey)),
          id |-> 0, trace |-> workflowTraceComponent("", 0)]
    ELSE [format |-> "pet-creation-%d-%s", key |-> hashIdempotencyKey(""),
          id |-> IF input.ID = 0 THEN nano ELSE input.ID,
          trace |-> traceComponent]

\* a *PetProjection: the stored pet with its metadata
Projection(repo, id) == Ptr(repo[id])

NoRequest ==
    [pc |-> "idle", input |-> AddPetInput(0, "", ""), trace |-> "",
     hash |-> FingerprintAddPet(AddPetInput(0, "", ""), << >>),
     after |-> {},               \* the requests answered before this one began
     saved |-> Nil,              \* inline: what repo.Save returned to the service
     syncCalls |-> 0,            \* inline: partnerSync.Sync invocations
     syncErr |-> ErrNone,        \* inline: the error of syncWithPartner
     wfID |-> buildPetCreationWorkflowID(AddPetInput(0, "", ""),
                                         workflowTraceComponent("", 0), 0),
     run |-> 0,                  \* temporal: the run of wfID this request reads
     started |-> FALSE,          \* temporal: this request started that run
     reported |-> FALSE,         \* temporal: the start was refused as AlreadyStarted
     ret |-> Nil, err |-> ErrNone,          \* what CreatePet returned
     respPet |-> Nil, respErr |-> ErrNone]  \* what the request answers

\* the observability decorator's AddPet: a failed inner call loses its result
DecoratorAddPet(result, err) ==
    IF err # ErrNone THEN [ret |-> Nil, err |-> err] ELSE [ret |-> result, err |-> ErrNone]

\* Service.saveAndSync after repo.Save: the error of repo.Save ends the call
\* with a nil projection, otherwise syncWithPartner runs on the saved pet
saveAndSyncAfterSave(saved, err) ==
    IF err # ErrNone THEN [next |-> "return", ret |-> Nil, err |-> err]
    ELSE [next |-> "sync", ret |-> saved, err |-> ErrNone]

\* Service.saveAndSync after syncWithPartner: the saved projection is
\* returned with or without the partner-sync error
saveAndSyncAfterSync(saved, syncErr) ==
    IF syncErr # ErrNone THEN [ret |-> saved, err |-> ErrPartnerSync]
    ELSE [ret |-> saved, err |-> ErrNone]

\* CreatePet has returned (ret, err) to request q: when it returned a
\* projection for a keyed command, the key is recorded with the request
\* hash and the pet id; then the request is answered
Respond(recs, q, ret, err, t) ==
    LET record == IdempotencyRecord(q.input.IdempotencyKey, q.hash,
                                    IF ret = Nil THEN 0 ELSE ret[1].Pet.ID, 0, 0)
        out == MemSaveResult(recs, record, t)
        returned == [q EXCEPT !.pc = "done", !.ret = ret, !.err = err, !.respPet = ret]
    IN  IF q.input.IdempotencyKey # "" /\ ret # Nil
        THEN [recs |-> out.recs,
              req |-> [returned EXCEPT !.respErr = IF out.err # ErrNone THEN out.err ELSE err]]
        ELSE [recs |-> recs, req |-> [returned EXCEPT !.respErr = err]]

\* a request arrives: the payload is fingerprinted and, when it carries a
\* key, looked up in the idempotency store; a stored record with another
\* hash is a conflict, one with the same hash is answered from the stored pet
BeginRequest(r, input, trace) ==
    LET hash == FingerprintAddPet(input, << >>)
        rec == IF input.IdempotencyKey = "" THEN Nil
               ELSE MemGetResult(records, input.IdempotencyKey)
        base == [NoRequest EXCEPT !.input = input, !.trace = trace, !.hash = hash,
                     !.after = {q \in DOMAIN req : req[q].pc = "done"}]
    IN  IF rec = Nil THEN [base EXCEPT !.pc = "create"]
        ELSE IF rec[1].RequestHash # hash
        THEN [base EXCEPT !.pc = "done", !.respErr = ErrIdempotencyConflict]
        ELSE [base EXCEPT !.pc = "done",
                 !.respPet = RepoGetByID(pets, rec[1].PetID).ret,
                 !.respErr = RepoGetByID(pets, rec[1].PetID).err]

\* a create request arrives at the API process
Begin(r, input, trace) ==
    /\ req[r].pc = "idle"
    /\ \A q \in DOMAIN req : q < r => req[q].pc # "idle"
    /\ req' = [req EXCEPT ![r] = BeginRequest(r, input, trace)]
    /\ UNCHANGED <<storeVars, now, pets, exec, mode, runs, restVars>>

\* the client of a request that was answered with an error sends it again,
\* with the same command and the same idempotency key
ClientRetry(r) ==
    /\ req[r].pc = "done" /\ req[r].respErr # ErrNone
    /\ req' = [req EXCEPT ![r] = BeginRequest(r, req[r].input, req[r].trace)]
    /\ UNCHANGED <<storeVars, now, pets, exec, mode, runs, restVars>>

\* InlinePetWorkflows.CreatePet -> decorator -> Service.AddPet up to
\* repo.Save; saveErr is the outcome of the repository.  A failed save
\* returns through the decorator and the request is answered.
InlineSave(r, saveErr) ==
    /\ mode = "inline"
    /\ req[r].pc = "create"
    /\ LET pet == NewPet(req[r].input.ID, req[r].input.Name)
           repo == IF saveErr = ErrNone THEN RepoSave(pets, pet, now) ELSE pets
           saved == IF saveErr = ErrNone THEN Projection(repo, pet.ID) ELSE Nil
           out == saveAndSyncAfterSave(saved, saveErr)
           back == DecoratorAddPet(out.ret, out.err)
           resp == Respond(records, req[r], back.ret, back.err, now)
       IN  /\ pets' = repo
           /\ IF out.next = "sync"
              THEN /\ req' = [req EXCEPT ![r] = [@ EXCEPT !.pc = "sync", !.saved = out.ret]]
                   /\ records' = records
              ELSE /\ req' = [req EXCEPT ![r] = resp.req]
                   /\ records' = resp.recs
    /\ UNCHANGED <<table, call, impl, translateError, now, exec, mode, runs, restVars>>

\* Service.syncWithPartner, the return through the decorator and the
\* answer; partnerErr is the outcome of partnerSync.Sync
InlineSyncStep(r, partnerErr) ==
    /\ mode = "inline"
    /\ req[r].pc = "sync"
    /\ LET out == saveAndSyncAfterSync(req[r].saved, partnerErr)
           back == DecoratorAddPet(out.ret, out.err)
           resp == Respond(records,
                           [req[r] EXCEPT !.syncCalls = @ + 1, !.syncErr = partnerErr],
                           back.ret, back.err, now)
       IN  /\ req' = [req EXCEPT ![r] = resp.req]
           /\ records' = resp.recs
    /\ UNCHANGED <<table, call, impl, translateError, now, pets, exec, mode, runs>>

\* InlineSync with no account kept of the partner's calls
InlineSync(r, partnerErr) ==
    InlineSyncStep(r, partnerErr) /\ UNCHANGED restVars

\* the retry policy of the persistence activity (persistOptions)
PersistMaximumAttempts == 5

\* a run just started by ExecuteWorkflow: PetCreationWorkflow is about to
\* execute the persistence activity
NewRun(input) ==
    [input |-> input, stage |-> "persist", status |-> "Running",
     persistAttempts |-> 0,      \* attempts the persistence activity has made
     persistFailed |-> FALSE,    \* the persistence activity failed on all attempts
     projection |-> Nil, syncInput |-> 0, syncCalls |-> 0,
     result |-> Nil, err |-> ErrNone]

\* a sequence that syncs the command's pet whatever the persistence
\* activity returned
SequenceSyncsRegardless(input, projection, err) ==
    [next |-> "sync", syncInput |-> input.ID, ret |-> projection, err |-> ErrNone]

\* RunPetPersistenceSequence, lines 120-134: after the persistence activity
\* (its retries included) has returned
RunPetPersistenceSequenceAfterPersist(input, projection, err) ==
    IF err # ErrNone
    THEN [next |-> "return", syncInput |-> 0, ret |-> Nil, err |-> err]
    ELSE IF projection # Nil
    THEN [next |-> "sync", syncInput |-> projection[1].Pet.ID,
          ret |-> projection, err |-> ErrNone]
    ELSE [next |-> "return", syncInput |-> 0, ret |-> projection, err |-> ErrNone]

\* a sequence that returns the projection without the sync activity's error
SequenceIgnoresSyncError(projection, err) == [ret |-> projection, err |-> ErrNone]

\* RunPetPersistenceSequence, lines 135-141: after the sync activity (its
\* retries included) has returned
RunPetPersistenceSequenceAfterSync(projection, err) ==
    [ret |-> projection, err |-> err]

\* a workflow that completes with the sequence's projection whatever the
\* sequence's error was
WorkflowCompletesOnError(projection, err) == [ret |-> projection, err |-> ErrNone]

\* PetCreationWorkflow: what the workflow returns for the sequence's return
PetCreationWorkflow(projection, err) ==
    IF err # ErrNone THEN [ret |-> Nil, err |-> err]
    ELSE [ret |-> projection, err |-> ErrNone]

\* the run closes with what the workflow returned
CloseRun(run, out) ==
    [run EXCEPT !.stage = "closed",
                !.status = IF out.err # ErrNone THEN "Failed" ELSE "Completed",
                !.result = out.ret, !.err = out.err]

\* a start refused as AlreadyStarted is never followed up
NeverFetchesExistingRun(input) == FALSE

\* TemporalPetWorkflows.CreatePet, line 56: the start refused as
\* AlreadyStarted is followed up by fetching the existing run
FetchesExistingRun(input) == TrimSpace(input.IdempotencyKey) # ""

\* a CreatePet that returns the run's result whatever the run's error was
CreatePetSwallowsError(result, err) == [ret |-> result, err |-> ErrNone]

\* TemporalPetWorkflows.CreatePet, lines 57-70: what CreatePet returns for
\* the outcome of run.Get
CreatePetReturn(result, err) ==
    IF err # ErrNone THEN [ret |-> Nil, err |-> err]
    ELSE [ret |-> result, err |-> ErrNone]

LastRun(w) == runs[w][Len(runs[w])]
IsOpen(w) == w \in DOMAIN runs /\ LastRun(w).stage # "closed"

\* TemporalPetWorkflows.CreatePet up to the start of the run.  A workflow id
\* with no open run starts a new run (the start options name no id-reuse
\* policy).  With an open run the runtime either attaches the caller to it
\* or refuses the start as AlreadyStarted (refuse).
ExecuteWorkflow(r, refuse) ==
    /\ mode = "temporal"
    /\ req[r].pc = "create"
    /\ LET q == req[r]
           w == buildPetCreationWorkflowID(q.input, workflowTraceComponent(q.trace, r), r)
           at == [q EXCEPT !.wfID = w,
                           !.run = IF IsOpen(w) THEN Len(runs[w])
                                   ELSE IF w \in DOMAIN runs THEN Len(runs[w]) + 1 ELSE 1]
           resp == Respond(records, [at EXCEPT !.reported = TRUE], Nil, ErrAlreadyStarted, now)
       IN  /\ refuse => IsOpen(w)
           /\ IF ~IsOpen(w)
              THEN /\ runs' = [k \in DOMAIN runs \cup {w} |->
                                 IF k = w
                                 THEN Append(IF w \in DOMAIN runs THEN runs[w] ELSE << >>,
                                             NewRun(q.input))
                                 ELSE runs[k]]
                   /\ req' = [req EXCEPT ![r] = [at EXCEPT !.pc = "await", !.started = TRUE]]
                   /\ records' = records
              ELSE IF ~refuse \/ FetchesExistingRun(q.input)
              THEN /\ req' = [req EXCEPT ![r] = [at EXCEPT !.pc = "await", !.reported = refuse]]
                   /\ UNCHANGED <<runs, records>>
              ELSE /\ req' = [req EXCEPT ![r] = resp.req]
                   /\ records' = resp.recs
                   /\ runs' = runs
    /\ UNCHANGED <<table, call, impl, translateError, now, pets, exec, mode, restVars>>

\* the SyncPetWithPartner activity under the retry policy of syncOptions:
\* attempt n and, when it fails, the attempts after it; partnerErrs[n] is
\* the outcome of the partner in attempt n, the repository is reliable; a
\* retry is given the heartbeat details of the attempt before it
RECURSIVE SyncActivityWithRetries(_, _, _, _, _, _)
SyncActivityWithRetries(repo, id, hb, partnerErrs, n, t) ==
    LET out == SyncPetWithPartner(repo, id, hb, partnerErrs[n], ErrNone, t)
    IN  IF out.err = ErrNone \/ n >= SyncMaximumAttempts
        THEN [pets |-> out.pets, calls |-> out.calls, err |-> out.err]
        ELSE LET rest == SyncActivityWithRetries(out.pets, id, out.hb, partnerErrs, n + 1, t)
             IN  [rest EXCEPT !.calls = @ + out.calls]

\* the PersistPet activity of the open run of w under the retry policy of
\* persistOptions: the persistence-only service builds the pet and saves
\* it; the repository fails either no attempt or all of them (exhausted)
ExecutePersistActivity(w, exhausted) ==
    /\ mode = "temporal"
    /\ IsOpen(w) /\ LastRun(w).stage = "persist"
    /\ LET run == LastRun(w)
           pet == NewPet(run.input.ID, run.input.Name)
           saveErr == IF exhausted THEN ErrRepository ELSE ErrNone
           repo == IF saveErr = ErrNone THEN RepoSave(pets, pet, now) ELSE pets
           service == saveAndSyncAfterSave(
                          IF saveErr = ErrNone THEN Projection(repo, pet.ID) ELSE Nil, saveErr)
           activity == DecoratorAddPet(service.ret, service.err)
           seq == RunPetPersistenceSequenceAfterPersist(run.input, activity.ret, activity.err)
           ended == [run EXCEPT !.projection = activity.ret,
                                !.persistAttempts = IF exhausted THEN PersistMaximumAttempts
                                                    ELSE 1,
                                !.persistFailed = (activity.err # ErrNone)]
       IN  /\ pets' = repo
           /\ runs' = [runs EXCEPT ![w][Len(runs[w])] =
                 IF seq.next = "sync"
                 THEN [ended EXCEPT !.stage = "sync", !.syncInput = seq.syncInput]
                 ELSE CloseRun(ended, PetCreationWorkflow(seq.ret, seq.err))]
    /\ UNCHANGED <<storeVars, now, exec, mode, req, restVars>>

\* the SyncPetWithPartner activity of the open run of w with its retries
ExecuteSyncActivityStep(w, partnerErrs) ==
    /\ mode = "temporal"
    /\ IsOpen(w) /\ LastRun(w).stage = "sync"
    /\ LET run == LastRun(w)
           out == SyncActivityWithRetries(pets, run.syncInput, NoHeartbeat,
                                          partnerErrs, 1, now)
           seq == RunPetPersistenceSequenceAfterSync(run.projection, out.err)
       IN  /\ pets' = out.pets
           /\ runs' = [runs EXCEPT ![w][Len(runs[w])] =
                 CloseRun([run EXCEPT !.syncCalls = out.calls],
                          PetCreationWorkflow(seq.ret, seq.err))]
    /\ UNCHANGED <<storeVars, now, exec, mode, req>>

\* ExecuteSyncActivity with no account kept of the partner's calls
ExecuteSyncActivity(w, partnerErrs) ==
    ExecuteSyncActivityStep(w, partnerErrs) /\ UNCHANGED restVars

\* TemporalPetWorkflows.CreatePet, run.Get: the run this request waits for
\* has closed; CreatePet returns and the request is answered
AwaitRun(r) ==
    /\ mode = "temporal"
    /\ req[r].pc = "await"
    /\ runs[req[r].wfID][req[r].run].stage = "closed"
    /\ LET run == runs[req[r].wfID][req[r].run]
           out == CreatePetReturn(run.result, run.err)
           resp == Respond(records, req[r], out.ret, out.err, now)
       IN  /\ req' = [req EXCEPT ![r] = resp.req]
           /\ records' = resp.recs
    /\ UNCHANGED <<table, call, impl, translateError, now, pets, exec, mode, runs, restVars>>

CreateInit ==
    /\ records = << >> /\ table = << >> /\ now = 1
    /\ call = [c \in Callers |-> Idle]
    /\ impl = "memory" /\ translateError = FALSE
    /\ pets = << >>
    /\ exec = << >>
    /\ mode \in {"inline", "temporal"}
    /\ req = [r \in Requests |-> NoRequest]
    /\ runs = << >>
    /\ fingerprints = NoFingerprints
    /\ partner = NoPartnerCalls

CreateNext ==
    \/ \E r \in Requests, i \in Inputs : Begin(r, i[1], i[2])
    \/ \E r \in Requests, saveErr \in {ErrNone, ErrRepository} : InlineSave(r, saveErr)
    \/ \E r \in Requests, partnerErr \in {ErrNone, ErrPartner} : InlineSync(r, partnerErr)
    \/ \E r \in Requests, refuse \in BOOLEAN : ExecuteWorkflow(r, refuse)
    \/ \E w \in DOMAIN runs, exhausted \in BOOLEAN :
          ExecutePersistActivity(w, exhausted)
    \/ \E w \in DOMAIN runs,
          partnerErrs \in [1..SyncMaximumAttempts -> {ErrNone, ErrPartner}] :
              ExecuteSyncActivity(w, partnerErrs)
    \/ \E r \in Requests : AwaitRun(r)

SpecCreate == CreateInit /\ [][CreateNext]_vars

(***************************************************************************)
(* Claims about pet creation (specification SpecCreate).                   *)
(***************************************************************************)
Answered(r) == req[r].pc = "done"
Succeeded(r) == Answered(r) /\ req[r].respErr = ErrNone /\ req[r].respPet # Nil

\* the run a request in temporal mode waits for or has read
RunOf(r) == runs[req[r].wfID][req[r].run]

\* the invocations of the partner adapter made for a request: by the service
\* (inline) or by the run the request started (temporal)
PartnerCallsOf(r) ==
    IF mode = "inline" THEN req[r].syncCalls
    ELSE IF req[r].started THEN RunOf(r).syncCalls ELSE 0

\* r2 repeats r1: it began after r1 was answered and carries the same keyed
\* command, and r1 succeeded
Repeats(r1, r2) ==
    /\ r1 \in req[r2].after /\ Answered(r2)
    /\ req[r2].input = req[r1].input
    /\ req[r1].input.IdempotencyKey # ""
    /\ Succeeded(r1)

ReusesKey(r1, r2) ==
    /\ r1 \in req[r2].after /\ Answered(r2)
    /\ req[r1].input.IdempotencyKey # ""
    /\ req[r2].input.IdempotencyKey = req[r1].input.IdempotencyKey
    /\ FingerprintAddPet(req[r1].input, << >>) # FingerprintAddPet(req[r2].input, << >>)
    /\ Succeeded(r1)

AllRuns == {<<w, i>> : w \in DOMAIN runs, i \in 1..NumRequests}
Runs == {x \in AllRuns : x[2] <= Len(runs[x[1]])}

\* C4: in both variants the partner adapter is invoked only for a command
\* whose persistence step has completed successfully before, and a command
\* whose persistence failed (in the durable variant on all attempts of the
\* persistence activity) has no partner invocation.
C4_PartnerOnlyAfterPersistence ==
    [][ /\ \A r \in Requests :
             /\ req'[r].syncCalls > req[r].syncCalls => req[r].saved # Nil
             /\ req'[r].syncCalls > 0 => req'[r].saved # Nil
        /\ \A w \in DOMAIN runs' : \A i \in 1..Len(runs'[w]) :
             LET after == runs'[w][i]
                 calls == IF w \in DOMAIN runs /\ i <= Len(runs[w])
                          THEN runs[w][i].syncCalls ELSE 0
                 persisted == w \in DOMAIN runs /\ i <= Len(runs[w])
                              /\ runs[w][i].projection # Nil
                              /\ ~runs[w][i].persistFailed
             IN  /\ after.syncCalls > calls => persisted
                 /\ after.persistFailed
                    => /\ after.syncCalls = 0
                       /\ after.persistAttempts = PersistMaximumAttempts ]_vars

\* C4 witness: a run whose persistence activity failed on all attempts has
\* closed, and another command was synced after its persistence
C4_PersistenceFailedRun ==
    /\ \E x \in Runs : LET run == runs[x[1]][x[2]]
                       IN  run.stage = "closed" /\ run.persistFailed /\ run.syncCalls = 0
    /\ \E x \in Runs : LET run == runs[x[1]][x[2]]
                       IN  run.projection # Nil /\ run.syncCalls > 0

\* C5: in the durable variant, when the persistence activity succeeded and
\* the partner-sync activity failed on all of its attempts, CreatePet returns
\* the persisted projection (non-nil) together with the sync error.
C5_SyncFailureReturnsProjection ==
    \A r \in Requests :
        (mode = "temporal" /\ Answered(r) /\ req[r].run > 0
            /\ RunOf(r).status = "Failed" /\ ~RunOf(r).persistFailed
            /\ RunOf(r).projection # Nil)
        => /\ req[r].ret = RunOf(r).projection
           /\ req[r].err = ErrPartner

\* the persistence writes made for a command: the successful repo.Save of
\* the requests (inline) and of the runs (temporal) that carry it
PersistenceWrites(input) ==
    Cardinality({r \in Requests : req[r].input = input /\ req[r].saved # Nil})
    + Cardinality({x \in Runs : /\ runs[x[1]][x[2]].input = input
                                /\ runs[x[1]][x[2]].projection # Nil})

\* C7: the create requests that carry one keyed command, whether sequential,
\* concurrent or retries after a failure, are replayed rather than
\* re-created: the persistence write for the command takes effect at most
\* once and every successful answer carries the same pet id.
C7_KeyedCommandPersistedOnce ==
    \A i \in Inputs :
        i[1].IdempotencyKey # ""
        => /\ PersistenceWrites(i[1]) <= 1
           /\ \A r1, r2 \in Requests :
                (Succeeded(r1) /\ Succeeded(r2)
                    /\ req[r1].input = i[1] /\ req[r2].input = i[1])
                => req[r1].respPet[1].Pet.ID = req[r2].respPet[1].Pet.ID

\* C9: in the inline variant behind the observability decorator, when the
\* repository save succeeded and the partner's Sync failed, CreatePet
\* returns the saved projection (non-nil) together with the partner-sync
\* error, and the pet remains persisted.
C9_InlineSyncFailureReturnsProjection ==
    \A r \in Requests :
        (mode = "inline" /\ Answered(r) /\ req[r].saved # Nil
            /\ req[r].syncErr # ErrNone)
        => /\ req[r].ret # Nil
           /\ req[r].ret[1].Pet.ID = req[r].input.ID
           /\ req[r].err = ErrPartnerSync
           /\ req[r].input.ID \in DOMAIN pets

\* what CreatePet returns when it reads the result of the run of request r
ExistingRunResult(r) == CreatePetReturn(RunOf(r).result, RunOf(r).err)

ErrorKind(err) ==
    IF err = ErrNone THEN "none"
    ELSE IF err = ErrRepository THEN "persistence failure"
    ELSE IF err \in {ErrPartnerSync, ErrPartner} THEN "partner-sync failure"
    ELSE "other"

\* what a caller of CreatePet observes: the pet of the projection, or its
\* absence, and the kind of the error
Outcome(ret, err) ==
    [pet |-> IF ret = Nil THEN Nil ELSE Ptr(ret[1].Pet), kind |-> ErrorKind(err)]

\* InlinePetWorkflows.CreatePet as a whole: the decorated service's AddPet
\* for a repository whose Save returns saveErr and a partner whose Sync
\* returns partnerErr
InlineCreatePet(input, saveErr, partnerErr) ==
    LET pet == NewPet(input.ID, input.Name)
        saved == IF saveErr = ErrNone
                 THEN Projection(RepoSave(<< >>, pet, 1), pet.ID) ELSE Nil
        afterSave == saveAndSyncAfterSave(saved, saveErr)
        out == IF afterSave.next = "sync"
               THEN saveAndSyncAfterSync(afterSave.ret, partnerErr)
               ELSE [ret |-> afterSave.ret, err |-> afterSave.err]
    IN  DecoratorAddPet(out.ret, out.err)

\* what the repository and the partner did for the run request r reads:
\* the outcome of the first repo.Save and of the first partnerSync.Sync
FirstSaveErr(r) == IF RunOf(r).persistFailed THEN ErrRepository ELSE ErrNone
FirstSyncErr(r) ==
    IF RunOf(r).syncCalls > 1 \/ RunOf(r).err = ErrPartner THEN ErrPartner ELSE ErrNone

\* the partner failed a call of the run and accepted a later one
TransientPartnerFailure(r) == RunOf(r).syncCalls > 1 /\ RunOf(r).err = ErrNone

\* the outcome of the inline variant for the command of r under the
\* behaviour the repository and the partner showed to the run of r
InlineOutcomeFor(r) ==
    LET out == InlineCreatePet(req[r].input, FirstSaveErr(r), FirstSyncErr(r))
    IN  Outcome(out.ret, out.err)

C14_PersistenceFailureFailsRun ==
    /\ \A x \in Runs :
          LET run == runs[x[1]][x[2]]
          IN  run.persistFailed
              => /\ run.stage = "closed" /\ run.status = "Failed"
                 /\ run.err = ErrRepository
                 /\ run.result = Nil /\ run.projection = Nil
    /\ \A r \in Requests :
          (mode = "temporal" /\ Answered(r) /\ req[r].run > 0 /\ ~req[r].reported
              /\ RunOf(r).persistFailed)
          => req[r].ret = Nil /\ req[r].err = ErrRepository

\* C14 witness: a call was answered from the run it started, whose
\* persistence activity had failed on all PersistMaximumAttempts attempts
C14_FailedRunReturned ==
    \E r \in Requests :
        /\ mode = "temporal" /\ Answered(r) /\ req[r].started
        /\ RunOf(r).persistFailed /\ RunOf(r).status = "Failed"
        /\ RunOf(r).persistAttempts = PersistMaximumAttempts
        /\ req[r].ret = Nil /\ req[r].err = ErrRepository

\* r went through TemporalPetWorkflows.CreatePet with a keyed command
KeyedStart(r) ==
    mode = "temporal" /\ req[r].run > 0 /\ req[r].input.IdempotencyKey # ""

\* C15: two CreatePet calls of the durable client with the same non-empty
\* idempotency key get the same run identity, whatever their other command
\* fields and correlation tokens are, and the second start collapses onto
\* the first run instead of creating a new one.
C15_SameKeySameRun ==
    \A r1, r2 \in Requests :
        (KeyedStart(r1) /\ KeyedStart(r2)
            /\ req[r1].input.IdempotencyKey = req[r2].input.IdempotencyKey)
        => /\ req[r1].wfID = req[r2].wfID
           /\ req[r1].run = req[r2].run

\* petsapp.ErrInvalidInput, which mapError wraps around the domain's
\* validation errors
ErrInvalidInput == "invalid input"

\* respondPetServiceError: the problem the handler answers for an error of
\* the pet service (called with a non-nil error)
respondPetServiceError(err) ==
    IF err = ErrNotFound THEN "apierrors.ErrNotFound"
    ELSE IF err = ErrInvalidInput THEN "apierrors.ErrValidation"
    ELSE "apierrors.ErrInternal"

\* the key of r is stored with another request hash than r's
KeyHeldByOtherPayload(r) ==
    /\ req[r].input.IdempotencyKey # ""
    /\ MemGetResult(records, req[r].input.IdempotencyKey) # Nil
    /\ MemGetResult(records, req[r].input.IdempotencyKey)[1].RequestHash # req[r].hash

\* C16: a create request whose idempotency key matches a stored record
\* with a different content hash is answered with a conflict-class response
\* of its own: not the validation, the not-found or the internal-error one.
C16_ConflictHasOwnResponse ==
    \A r \in Requests :
        (Answered(r) /\ KeyHeldByOtherPayload(r))
        => /\ req[r].respErr = ErrIdempotencyConflict
           /\ respondPetServiceError(req[r].respErr)
                 \notin {"apierrors.ErrNotFound", "apierrors.ErrValidation",
                         "apierrors.ErrInternal"}

\* what the persistence step of request r has stored: the projection
\* repo.Save returned to the service (inline), or the projection of the
\* persistence activity of the run the request started (temporal)
PersistedBy(r) ==
    IF req[r].pc = "idle" THEN Nil
    ELSE IF mode = "inline" THEN req[r].saved
    ELSE IF req[r].started THEN RunOf(r).projection
    ELSE Nil

\* C30: an idempotency record for key K exists only if a create request
\* carrying K has had its pet persisted successfully, and the record's petID
\* is the id of that persisted pet; a request whose persistence failed
\* leaves no record for its key.
C30_RecordOnlyAfterPersistence ==
    /\ [](\A k \in DOMAIN records :
            /\ records[k].PetID \in DOMAIN pets
            /\ \E r \in Requests :
                  /\ req[r].input.IdempotencyKey = k
                  /\ PersistedBy(r) # Nil
                  /\ PersistedBy(r)[1].Pet.ID = records[k].PetID)
    /\ [][ \A r \in Requests :
             (req[r].pc # "done" /\ req'[r].pc = "done" /\ req'[r].err = ErrRepository)
             => records' = records ]_vars

\* C30 witness: a keyed request whose persistence failed was answered and
\* left no record; a later request under the same key persisted its pet and
\* the key is recorded with that pet's id
C30_RecordedAfterFailedRequest ==
    \E r1, r2 \in Requests :
        /\ Answered(r1) /\ req[r1].err = ErrRepository /\ PersistedBy(r1) = Nil
        /\ Answered(r2) /\ r1 \in req[r2].after
        /\ req[r1].input.IdempotencyKey = "k1" /\ req[r2].input.IdempotencyKey = "k1"
        /\ PersistedBy(r2) # Nil
        /\ "k1" \in DOMAIN records
        /\ records["k1"].PetID = PersistedBy(r2)[1].Pet.ID

(***************************************************************************)
(* FingerprintAddPet applied to commands with tag lists and external       *)
(* references (specification SpecFingerprint): two commands, each          *)
(* fingerprinted once.                                                     *)
(***************************************************************************)
\* the commands fingerprinted: with and without an idempotency key, every
\* tag list and every external reference of the model
FingerprintInputs ==
    {[AddPetInput(1, "Rex", k) EXCEPT !.Tags = t, !.ExternalReference = e] :
        k \in {"", "k1"}, t \in TagLists, e \in ExternalReferences}

\* the Attributes map of the command's external reference (empty without one)
AttributesOf(input) ==
    IF input.ExternalReference = Nil THEN << >>
    ELSE input.ExternalReference[1].Attributes

\* FingerprintAddPet(input) is called for the command of slot c; the range
\* over the attributes runs in the given order
Fingerprint(c, input, order) ==
    /\ fingerprints[c] = Nil
    /\ order \in RangeOrders(AttributesOf(input))
    /\ fingerprints' = [fingerprints EXCEPT ![c] =
           Ptr([input |-> input, order |-> order,
                sum |-> FingerprintAddPet(input, order)])]
    /\ UNCHANGED <<storeVars, now, pets, exec, mode, req, runs, partner>>

FingerprintInit ==
    /\ records = << >> /\ table = << >> /\ now = 1
    /\ call = [c \in Callers |-> Idle]
    /\ impl = "memory" /\ translateError = FALSE
    /\ pets = << >> /\ exec = << >>
    /\ mode = "inline" /\ req = << >> /\ runs = << >>
    /\ fingerprints = NoFingerprints
    /\ partner = NoPartnerCalls

FingerprintNext ==
    \E c \in CommandSlots, input \in FingerprintInputs :
        \E order \in RangeOrders(AttributesOf(input)) : Fingerprint(c, input, order)

SpecFingerprint == FingerprintInit /\ [][FingerprintNext]_vars

\* both slots hold a fingerprinted command
BothFingerprinted == \A c \in CommandSlots : fingerprints[c] # Nil

\* b's tag list is a permutation of a's tag list
PermutedTags(a, b) ==
    /\ a.Tags # Nil /\ b.Tags # Nil
    /\ Len(a.Tags[1]) = Len(b.Tags[1])
    /\ \E p \in [1..Len(a.Tags[1]) -> 1..Len(a.Tags[1])] :
          /\ \A i, j \in DOMAIN p : i # j => p[i] # p[j]
          /\ \A i \in DOMAIN p : b.Tags[1][i] = a.Tags[1][p[i]]

\* C12: for every command C, any permutation of C's tag list leaves the
\* fingerprint of C unchanged (all other fields, and the order in which the
\* attributes are ranged over, being the same).
C12_TagPermutationKeepsFingerprint ==
    BothFingerprinted
    => LET a == fingerprints["first"][1]
           b == fingerprints["second"][1]
       IN  (/\ PermutedTags(a.input, b.input)
            /\ [a.input EXCEPT !.Tags = Nil] = [b.input EXCEPT !.Tags = Nil]
            /\ a.order = b.order)
           => a.sum = b.sum

\* C13: for every command C, the fingerprint of C does not depend on the
\* order in which the entries of its external-reference attribute map are
\* ranged over: two fingerprints of one command are equal.
C13_AttributeOrderKeepsFingerprint ==
    BothFingerprinted
    => LET a == fingerprints["first"][1]
           b == fingerprints["second"][1]
       IN  a.input = b.input => a.sum = b.sum

\* C13 witness: one command with two attributes was fingerprinted under
\* both iteration orders of its attribute map
C13_BothOrdersFingerprinted ==
    /\ BothFingerprinted
    /\ LET a == fingerprints["first"][1]
           b == fingerprints["second"][1]
       IN  /\ a.input = b.input
           /\ Len(a.order) = 2
           /\ a.order # b.order
           /\ a.sum = b.sum

(***************************************************************************)
(* Clients that retry a keyed create request until it is answered without  *)
(* an error, with a reliable repository and a partner that fails at most    *)
(* MaxPartnerFailures Sync calls and accepts every call after them          *)
(* (specification SpecRetry).                                              *)
(***************************************************************************)
\* the two clients, each with one create request it retries
RetryRequests == {1, 2}

\* the keyed commands the clients send, each under a key of its own
RetryInputs ==
    { <<AddPetInput(1, "Rex", "k1"), "t1">>,
      <<AddPetInput(2, "Buddy", "k2"), "t1">> }

\* Service.syncWithPartner against the partner system: a failed Sync is
\* counted, an accepted one delivers the pet
RetryInlineSync(r, partnerErr) ==
    /\ partnerErr # ErrNone => partner.failures < MaxPartnerFailures
    /\ InlineSyncStep(r, partnerErr)
    /\ partner' = IF partnerErr # ErrNone
                  THEN [partner EXCEPT !.failures = @ + 1]
                  ELSE [partner EXCEPT !.synced = @ \cup {req[r].saved[1].Pet.ID}]
    /\ UNCHANGED fingerprints

\* the SyncPetWithPartner activity with its retries against the partner
\* system: of the Sync calls it made, all but an accepted last one failed
RetryExecuteSyncActivity(w, partnerErrs) ==
    /\ ExecuteSyncActivityStep(w, partnerErrs)
    /\ LET out == SyncActivityWithRetries(pets, LastRun(w).syncInput, NoHeartbeat,
                                          partnerErrs, 1, now)
           accepted == out.err = ErrNone /\ out.calls > 0
           failed == IF accepted THEN out.calls - 1 ELSE out.calls
       IN  /\ partner.failures + failed <= MaxPartnerFailures
           /\ partner' = [failures |-> partner.failures + failed,
                          synced |-> IF accepted
                                     THEN partner.synced \cup {LastRun(w).syncInput}
                                     ELSE partner.synced]
    /\ UNCHANGED fingerprints

RetryInit ==
    /\ records = << >> /\ table = << >> /\ now = 1
    /\ call = [c \in Callers |-> Idle]
    /\ impl = "memory" /\ translateError = FALSE
    /\ pets = << >>
    /\ exec = << >>
    /\ mode \in {"inline", "temporal"}
    /\ req = [r \in RetryRequests |-> NoRequest]
    /\ runs = << >>
    /\ fingerprints = NoFingerprints
    /\ partner = NoPartnerCalls

RetryNext ==
    \/ \E r \in RetryRequests, i \in RetryInputs : Begin(r, i[1], i[2])
    \/ \E r \in RetryRequests : ClientRetry(r)
    \/ \E r \in RetryRequests : InlineSave(r, ErrNone)
    \/ \E r \in RetryRequests, partnerErr \in {ErrNone, ErrPartner} :
          RetryInlineSync(r, partnerErr)
    \/ \E r \in RetryRequests, refuse \in BOOLEAN : ExecuteWorkflow(r, refuse)
    \/ \E w \in DOMAIN runs : ExecutePersistActivity(w, FALSE)
    \/ \E w \in DOMAIN runs,
          partnerErrs \in [1..SyncMaximumAttempts -> {ErrNone, ErrPartner}] :
              RetryExecuteSyncActivity(w, partnerErrs)
    \/ \E r \in RetryRequests : AwaitRun(r)

\* the clients keep retrying, the API process and the worker keep running:
\* a step that can be taken is eventually taken
RetryFairness == WF_vars(RetryNext)

SpecRetry == RetryInit /\ [][RetryNext]_vars /\ RetryFairness

\* the pet of the keyed request r is in the repository
PersistedFor(r) ==
    /\ req[r].pc # "idle" /\ req[r].input.IdempotencyKey # ""
    /\ req[r].input.ID \in DOMAIN pets

\* the partner has accepted a Sync of the pet of request r
SyncedFor(r) == req[r].input.ID \in partner.synced

WorkflowIDs == {"w1", "w2"}
WorkflowInputs(w) ==
    IF w = "w1" THEN {AddPetInput(1, "Rex", "k1"), AddPetInput(1, "", "k1")}
    ELSE {AddPetInput(2, "Buddy", "")}

\* Pet.UpdateStatus: the empty status is available; a status that is none
\* of available, pending, sold is replaced by available.  The method has no
\* result, so the error checks around its calls never fire.
UpdateStatus(p, status) ==
    IF status \in {"available", "pending", "sold"}
    THEN [p EXCEPT !.Status = status]
    ELSE [p EXCEPT !.Status = "available"]

\* the status of the command, "" when the command names none
StatusOf(input) == IF "Status" \in DOMAIN input THEN input.Status ELSE ""

\* buildPetFromMutation: the aggregate of the command, or the validation
\* error of domain.NewPet as mapError returns it
buildPetFromMutation(input) ==
    IF TrimSpace(input.Name) = ""
    THEN [pet |-> NewPet(input.ID, input.Name), err |-> ErrInvalidInput]
    ELSE [pet |-> UpdateStatus(NewPet(input.ID, input.Name), StatusOf(input)),
          err |-> ErrNone]

\* persistOptions and syncOptions name no NonRetryableErrorTypes, and the
\* activities return their errors as plain errors
NonRetryableErrorTypes == {}

\* a run just started, with the account of its activities' attempts: the
\* attempts of the sync activity so far, the heartbeat details a retry is
\* given, and the error of the last attempt of each activity
StartedRun(input) ==
    [input |-> input, stage |-> "persist", status |-> "Running",
     persistAttempts |-> 0, persistFailed |-> FALSE,
     projection |-> Nil, syncInput |-> 0, syncCalls |-> 0,
     result |-> Nil, err |-> ErrNone,
     syncAttempts |-> 0, hb |-> NoHeartbeat,
     syncAccepted |-> 0,         \* Sync calls the partner adapter answered with nil
     persistErr |-> ErrNone, syncErr |-> ErrNone]

\* a retry policy with MaximumAttempts unset: a failed attempt is always retried
RetryPolicyUnlimited(attempt, maximumAttempts) == FALSE

\* temporal.RetryPolicy{MaximumAttempts: n}: no retry after attempt n
RetryPolicyExhausted(attempt, maximumAttempts) == attempt >= maximumAttempts

\* client.ExecuteWorkflow starts the run of workflow id w
StartWorkflow(w, input) ==
    /\ mode = "temporal"
    /\ w \notin DOMAIN runs
    /\ runs' = [k \in DOMAIN runs \cup {w} |->
                  IF k = w THEN <<StartedRun(input)>> ELSE runs[k]]
    /\ UNCHANGED <<storeVars, now, pets, exec, mode, req, restVars>>

\* one attempt of the PersistPet activity of the open run of w, saveErr the
\* outcome of repo.Save in that attempt: a failed attempt is retried until
\* persistOptions' policy is exhausted, then the sequence goes on with what
\* the activity returned
PersistActivityAttempt(w, saveErr) ==
    /\ mode = "temporal"
    /\ IsOpen(w) /\ LastRun(w).stage = "persist"
    /\ LastRun(w).persistAttempts < MaxAttempts
    /\ LET run == LastRun(w)
           built == buildPetFromMutation(run.input)
           pet == built.pet
           saved == built.err = ErrNone /\ saveErr = ErrNone
           repo == IF saved THEN RepoSave(pets, pet, now) ELSE pets
           service == IF built.err # ErrNone
                      THEN [next |-> "return", ret |-> Nil, err |-> built.err]
                      ELSE saveAndSyncAfterSave(
                               IF saved THEN Projection(repo, pet.ID) ELSE Nil, saveErr)
           activity == DecoratorAddPet(service.ret, service.err)
           attempt == run.persistAttempts + 1
           tried == [run EXCEPT !.persistAttempts = attempt, !.persistErr = activity.err]
           seq == RunPetPersistenceSequenceAfterPersist(run.input, activity.ret, activity.err)
           ended == [tried EXCEPT !.projection = activity.ret,
                                  !.persistFailed = (activity.err # ErrNone)]
       IN  /\ pets' = repo
           /\ runs' = [runs EXCEPT ![w][Len(runs[w])] =
                 IF activity.err # ErrNone
                    /\ activity.err \notin NonRetryableErrorTypes
                    /\ ~RetryPolicyExhausted(attempt, PersistMaximumAttempts)
                 THEN tried
                 ELSE IF seq.next = "sync"
                 THEN [ended EXCEPT !.stage = "sync", !.syncInput = seq.syncInput]
                 ELSE CloseRun(ended, PetCreationWorkflow(seq.ret, seq.err))]
    /\ UNCHANGED <<storeVars, now, exec, mode, req, restVars>>

\* a retry of the sync activity that starts the sequence over
RetryFromPersistence(tried) == [tried EXCEPT !.stage = "persist"]

\* RunPetPersistenceSequence, line 135: the retry of a failed attempt of
\* the sync activity is made inside the one ExecuteActivity call the
\* sequence waits in
RetrySyncActivity(tried) == tried

\* one attempt of the SyncPetWithPartner activity of the open run of w: a
\* failed attempt is retried with the heartbeat details recorded so far
\* until syncOptions' policy is exhausted, then the sequence returns
SyncActivityAttempt(w, partnerErr, saveErr) ==
    /\ mode = "temporal"
    /\ IsOpen(w) /\ LastRun(w).stage = "sync"
    /\ LastRun(w).syncAttempts < MaxAttempts
    /\ LET run == LastRun(w)
           out == SyncPetWithPartner(pets, run.syncInput, run.hb, partnerErr, saveErr, now)
           attempt == run.syncAttempts + 1
           tried == [run EXCEPT !.syncAttempts = attempt, !.syncErr = out.err,
                                !.hb = out.hb, !.syncCalls = @ + out.calls,
                                !.syncAccepted = IF out.calls = 1 /\ partnerErr = ErrNone
                                                 THEN @ + 1 ELSE @]
           seq == RunPetPersistenceSequenceAfterSync(run.projection, out.err)
       IN  /\ pets' = out.pets
           /\ runs' = [runs EXCEPT ![w][Len(runs[w])] =
                 IF out.err # ErrNone
                    /\ out.err \notin NonRetryableErrorTypes
                    /\ ~RetryPolicyExhausted(attempt, SyncMaximumAttempts)
                 THEN RetrySyncActivity(tried)
                 ELSE CloseRun(tried, PetCreationWorkflow(seq.ret, seq.err))]
    /\ UNCHANGED <<storeVars, now, exec, mode, req, restVars>>

WorkflowInit ==
    /\ records = << >> /\ table = << >> /\ now = 1
    /\ call = [c \in Callers |-> Idle]
    /\ impl = "memory" /\ translateError = FALSE
    /\ pets = << >>
    /\ exec = << >>
    /\ mode = "temporal" /\ req = << >>
    /\ runs = << >>
    /\ fingerprints = NoFingerprints
    /\ partner = NoPartnerCalls

WorkflowNext ==
    \/ \E w \in WorkflowIDs : \E input \in WorkflowInputs(w) : StartWorkflow(w, input)
    \/ \E w \in DOMAIN runs, saveErr \in {ErrNone, ErrRepository} :
          PersistActivityAttempt(w, saveErr)
    \/ \E w \in DOMAIN runs, partnerErr \in {ErrNone, ErrPartner},
          saveErr \in {ErrNone, ErrRepository} :
              SyncActivityAttempt(w, partnerErr, saveErr)

\* the worker keeps polling its task queue: an attempt that can be made is
\* eventually made
WorkflowFairness == WF_vars(WorkflowNext)

SpecWorkflow == WorkflowInit /\ [][WorkflowNext]_vars /\ WorkflowFairness

\* one run followed to its end: the run of w1, started with any of the
\* commands (specification SpecWorkflowLive)
WorkflowLiveNext ==
    \/ \E v \in WorkflowIDs : \E input \in WorkflowInputs(v) : StartWorkflow("w1", input)
    \/ \E w \in DOMAIN runs, saveErr \in {ErrNone, ErrRepository} :
          PersistActivityAttempt(w, saveErr)
    \/ \E w \in DOMAIN runs, partnerErr \in {ErrNone, ErrPartner},
          saveErr \in {ErrNone, ErrRepository} :
              SyncActivityAttempt(w, partnerErr, saveErr)

WorkflowLiveFairness == WF_vars(WorkflowLiveNext)

SpecWorkflowLive == WorkflowInit /\ [][WorkflowLiveNext]_vars /\ WorkflowLiveFairness

\* the run of w never makes more attempts than its retry policies allow,
\* closes only as Completed or Failed, and has failed with the activity's
\* last error once an activity's attempts are exhausted
WithinRetryPolicies(w) ==
    LET run == LastRun(w)
    IN  /\ run.persistAttempts <= PersistMaximumAttempts
        /\ run.syncAttempts <= SyncMaximumAttempts
        /\ run.stage = "closed" => run.status \in {"Completed", "Failed"}
        /\ (run.persistAttempts = PersistMaximumAttempts /\ run.persistErr # ErrNone)
           => /\ run.stage = "closed" /\ run.status = "Failed"
              /\ run.err = run.persistErr /\ run.syncAttempts = 0
        /\ (run.syncAttempts = SyncMaximumAttempts /\ run.syncErr # ErrNone)
           => /\ run.stage = "closed" /\ run.status = "Failed"
              /\ run.err = run.syncErr

\* C20: every workflow run terminates in Completed or Failed after at most 5
\* attempts of the persistence activity and at most 3 attempts of the
\* partner-sync activity; when an activity's attempts are exhausted, the run
\* fails with that activity's error.
C20_RunsTerminateWithinAttempts ==
    /\ [](\A w \in DOMAIN runs : WithinRetryPolicies(w))
    /\ \A w \in WorkflowIDs :
          (w \in DOMAIN runs)
          ~> (w \in DOMAIN runs /\ LastRun(w).stage = "closed"
                 /\ LastRun(w).status \in {"Completed", "Failed"})

\* C20 witness: a run whose persistence activity succeeded on the last
\* attempt its policy allows has failed with the partner's error after
\* SyncMaximumAttempts failed attempts of the partner-sync activity
C20_BothPoliciesExhausted ==
    \E w \in DOMAIN runs :
        LET run == LastRun(w)
        IN  /\ run.stage = "closed" /\ run.status = "Failed"
            /\ run.persistAttempts = PersistMaximumAttempts /\ ~run.persistFailed
            /\ run.syncAttempts = SyncMaximumAttempts
            /\ run.syncErr = ErrPartner /\ run.err = ErrPartner

\* the state of a run in the words of the state machine
RunState(run) ==
    IF run.stage = "persist" THEN "Persisting"
    ELSE IF run.stage = "sync" THEN "Syncing"
    ELSE run.status

\* the moves of the state machine
RunStateMoves ==
    { <<"Persisting", "Syncing">>, <<"Syncing", "Completed">>,
      <<"Persisting", "Failed">>, <<"Syncing", "Failed">> }

\* C21: a run's state only moves Persisting to Syncing to Completed, or
\* from Persisting or Syncing to Failed; once the persistence activity has
\* succeeded it is not executed again in that run, whatever the partner
\* sync does, and Completed and Failed are terminal.
C21_RunStateMachine ==
    [][ \A w \in DOMAIN runs :
          LET before == LastRun(w)
              after == runs'[w][Len(runs'[w])]
          IN  /\ Len(runs'[w]) = Len(runs[w])
              /\ \/ RunState(after) = RunState(before)
                 \/ <<RunState(before), RunState(after)>> \in RunStateMoves
              /\ RunState(before) # "Persisting"
                 => /\ after.persistAttempts = before.persistAttempts
                    /\ after.projection = before.projection
              /\ RunState(before) \in {"Completed", "Failed"} => after = before ]_vars

\* C21 witness: a run completed after a retried partner sync with the one
\* successful attempt of its persistence activity
C21_CompletedAfterSyncRetry ==
    \E w \in DOMAIN runs :
        /\ RunState(LastRun(w)) = "Completed"
        /\ LastRun(w).syncAttempts > 1
        /\ LastRun(w).persistAttempts = 1 /\ ~LastRun(w).persistFailed

\* C22: across all attempts of the partner-sync activity of one run, for a
\* pet whose content does not change, the partner adapter's Sync is called
\* successfully at most once.
C22_SyncAcceptedAtMostOnce ==
    \A w \in DOMAIN runs : LastRun(w).syncAccepted <= 1

\* the errors partner.Syncer.Sync can return: the partner cannot be reached,
\* or it answers the call with an error
ErrPartnerRejected == "partner rejected the pet"
PartnerErrors == {ErrPartner, ErrPartnerRejected}

\* C27: when the partner adapter's Sync returns an error, the sync activity
\* returns that same error unmodified, writes no hash to the repository and
\* records no completion heartbeat.
C27_PartnerErrorPassedThrough ==
    /\ [](\A w \in DOMAIN runs :
            LastRun(w).stage = "sync"
            => \A partnerErr \in PartnerErrors, saveErr \in {ErrNone, ErrRepository} :
                  LET run == LastRun(w)
                      out == SyncPetWithPartner(pets, run.syncInput, run.hb,
                                                partnerErr, saveErr, now)
                  IN  out.calls = 1
                      => /\ out.err = partnerErr
                         /\ out.pets = pets /\ ~out.wrote
                         /\ out.hb = run.hb /\ ~out.hb.Completed)
    /\ [][ \A w \in DOMAIN runs :
             LET before == LastRun(w)
                 after == runs'[w][Len(runs'[w])]
             IN  (/\ before.stage = "sync"
                  /\ after.syncCalls = before.syncCalls + 1
                  /\ after.syncAccepted = before.syncAccepted)
                 => /\ after.syncErr = ErrPartner
                    /\ pets' = pets
                    /\ after.hb = before.hb /\ ~after.hb.Completed ]_vars

\* C27 witness: the first attempt of a run's sync activity called the
\* partner and returned the partner's error; the pet has no sync hash and
\* no heartbeat is recorded
C27_PartnerErrorReturned ==
    \E w \in DOMAIN runs :
        LET run == LastRun(w)
        IN  /\ run.stage = "sync" /\ run.syncAttempts = 1
            /\ run.syncCalls = 1 /\ run.syncAccepted = 0
            /\ run.syncErr = ErrPartner
            /\ ~run.hb.Completed
            /\ pets[run.syncInput].Pet.ExternalRef = Nil

\* C28: a validation error raised while building the aggregate in the
\* persistence step is never retried: the persistence activity is attempted
\* exactly once, the error is surfaced to the caller, and the repository is
\* not written.
C28_ValidationErrorNotRetried ==
    \A w \in DOMAIN runs :
        LET run == LastRun(w)
        IN  buildPetFromMutation(run.input).err # ErrNone
            => /\ run.persistAttempts <= 1
               /\ run.persistAttempts = 1
                  => /\ run.stage = "closed" /\ run.status = "Failed"
                     /\ run.err = ErrInvalidInput
               /\ run.input.ID \notin DOMAIN pets


(***************************************************************************)
(* One run of the sequence with the attempts of its activities executed    *)
(* call by call (specification SpecAttempts): an attempt is the goroutine  *)
(* the worker runs the activity function in.  When StartToCloseTimeout     *)
(* passes the runtime counts the attempt as failed and applies the retry   *)
(* policy; the goroutine is not stopped, its context is done.  The         *)
(* in-memory repository ignores the context, the relational repository     *)
(* and the partner client pass it to the call they make.                   *)
(***************************************************************************)
MaxTimeouts == 1

\* the command of the run
AttemptInput == AddPetInput(1, "Rex", "k1")

ErrDeadlineExceeded == "context deadline exceeded"
ErrTimeout == "activity StartToClose timeout"

\* a call on the repository with the context of attempt a: db.WithContext(ctx)
\* fails when the context is done, memory.Repository has `_ context.Context`
RepoCallCanceled(a) == impl = "postgres" /\ a.timedOut

\* the attempts the runtime is still waiting for
Outstanding == {i \in DOMAIN exec : exec[i].pc # "Returned" /\ ~exec[i].timedOut}

\* the timeouts counted so far
TimedOut == {i \in DOMAIN exec : exec[i].timedOut}

\* what the runtime and RunPetPersistenceSequence do with the outcome of an
\* attempt of the activity the run waits for
AttemptReported(run, err) ==
    IF err = ErrNone
    THEN (IF run.stage = "persist"
          THEN [run EXCEPT !.stage = "sync", !.attempts = 0]
          ELSE [run EXCEPT !.stage = "completed"])
    ELSE IF RetryPolicyExhausted(run.attempts,
                IF run.stage = "persist" THEN PersistMaximumAttempts
                ELSE SyncMaximumAttempts)
    THEN [run EXCEPT !.stage = "failed"]
    ELSE run

\* attempt i returns err from the activity function: the runtime takes the
\* outcome unless it has timed the attempt out already
AttemptReturns(i, err) ==
    /\ exec' = [exec EXCEPT ![i].pc = "Returned", ![i].err = err]
    /\ runs' = IF exec[i].timedOut THEN runs ELSE AttemptReported(runs, err)

\* the runtime starts the next attempt of the activity the sequence waits
\* for: the first one, or a retry after a failed or timed out attempt
ScheduleActivityAttempt ==
    /\ runs.stage \in {"persist", "sync"}
    /\ Outstanding = {}
    /\ exec' = Append(exec, [activity |-> runs.stage,
                             pc |-> IF runs.stage = "persist" THEN "Save" ELSE "GetByID",
                             timedOut |-> FALSE, loaded |-> Nil, err |-> ErrNone])
    /\ runs' = [runs EXCEPT !.attempts = @ + 1]
    /\ UNCHANGED <<storeVars, now, pets, mode, req, restVars>>

\* StartToCloseTimeout of attempt i passes before it has returned
ActivityTimeout(i) ==
    /\ i \in Outstanding
    /\ Cardinality(TimedOut) < MaxTimeouts
    /\ exec' = [exec EXCEPT ![i].timedOut = TRUE]
    /\ runs' = AttemptReported(runs, ErrTimeout)
    /\ UNCHANGED <<storeVars, now, pets, mode, req, restVars>>

\* PersistPet, attempt i: Service.AddPet builds the pet and calls repo.Save
PersistSaveStep(i, saveErr) ==
    /\ i \in DOMAIN exec
    /\ exec[i].activity = "persist" /\ exec[i].pc = "Save"
    /\ LET built == buildPetFromMutation(AttemptInput)
           err == IF built.err # ErrNone THEN built.err
                  ELSE IF RepoCallCanceled(exec[i]) THEN ErrDeadlineExceeded
                  ELSE saveErr
       IN  /\ pets' = IF err = ErrNone THEN RepoSave(pets, built.pet, now) ELSE pets
           /\ now' = IF err = ErrNone THEN now + 1 ELSE now
           /\ AttemptReturns(i, err)
    /\ UNCHANGED <<storeVars, mode, req, restVars>>

\* SyncPetWithPartner, attempt i, lines 93-110: repo.GetByID, the hash and
\* the alreadySynced gate
SyncGetByIDStep(i) ==
    /\ i \in DOMAIN exec
    /\ exec[i].activity = "sync" /\ exec[i].pc = "GetByID"
    /\ LET got == RepoGetByID(pets, AttemptInput.ID)
       IN  IF RepoCallCanceled(exec[i]) THEN AttemptReturns(i, ErrDeadlineExceeded)
           ELSE IF got.err # ErrNone THEN AttemptReturns(i, got.err)
           ELSE IF alreadySynced(computePartnerSyncHash(got.ret[1].Pet), got.ret[1].Pet)
           THEN AttemptReturns(i, ErrNone)
           ELSE /\ exec' = [exec EXCEPT ![i].pc = "Sync",
                                        ![i].loaded = Ptr(got.ret[1].Pet)]
                /\ UNCHANGED runs
    /\ UNCHANGED <<storeVars, now, pets, mode, req, restVars>>

\* SyncPetWithPartner, attempt i, line 111: partnerSync.Sync with the
\* attempt's context
SyncCallStep(i, partnerErr) ==
    /\ i \in DOMAIN exec
    /\ exec[i].activity = "sync" /\ exec[i].pc = "Sync"
    /\ IF exec[i].timedOut THEN AttemptReturns(i, ErrDeadlineExceeded)
       ELSE IF partnerErr # ErrNone THEN AttemptReturns(i, partnerErr)
       ELSE /\ exec' = [exec EXCEPT ![i].pc = "Save"]
            /\ UNCHANGED runs
    /\ UNCHANGED <<storeVars, now, pets, mode, req, restVars>>

\* SyncPetWithPartner, attempt i, lines 116-123: the hash is set on the pet
\* as it was loaded and the pet is saved; then the heartbeat and the return
SyncSaveStep(i, saveErr) ==
    /\ i \in DOMAIN exec
    /\ exec[i].activity = "sync" /\ exec[i].pc = "Save"
    /\ LET pet == exec[i].loaded[1]
           err == IF RepoCallCanceled(exec[i]) THEN ErrDeadlineExceeded ELSE saveErr
       IN  /\ pets' = IF err = ErrNone
                      THEN RepoSave(pets, updatePartnerSyncHash(computePartnerSyncHash(pet), pet), now)
                      ELSE pets
           /\ now' = IF err = ErrNone THEN now + 1 ELSE now
           /\ AttemptReturns(i, err)
    /\ UNCHANGED <<storeVars, mode, req, restVars>>

\* another request commits Service.UpdatePet for the pet: it renames the
\* stored pet (once)
UpdatePetCommitted(name) ==
    /\ AttemptInput.ID \in DOMAIN pets
    /\ pets[AttemptInput.ID].Pet.Name = AttemptInput.Name
    /\ name # AttemptInput.Name
    /\ pets' = RepoSave(pets, [pets[AttemptInput.ID].Pet EXCEPT !.Name = name], now)
    /\ now' = now + 1
    /\ UNCHANGED <<storeVars, exec, mode, req, runs, restVars>>

AttemptsInit ==
    /\ records = << >> /\ table = << >> /\ now = 1
    /\ call = [c \in Callers |-> Idle]
    /\ impl \in {"memory", "postgres"} /\ translateError = FALSE
    /\ pets = << >>
    /\ exec = << >>
    /\ mode = "temporal" /\ req = << >>
    /\ runs = [stage |-> "persist", attempts |-> 0]
    /\ fingerprints = NoFingerprints
    /\ partner = NoPartnerCalls

AttemptsNext ==
    \/ ScheduleActivityAttempt
    \/ \E i \in DOMAIN exec : ActivityTimeout(i)
    \/ \E i \in DOMAIN exec, saveErr \in {ErrNone, ErrRepository} : PersistSaveStep(i, saveErr)
    \/ \E i \in DOMAIN exec : SyncGetByIDStep(i)
    \/ \E i \in DOMAIN exec, partnerErr \in {ErrNone, ErrPartner} : SyncCallStep(i, partnerErr)
    \/ \E i \in DOMAIN exec, saveErr \in {ErrNone, ErrRepository} : SyncSaveStep(i, saveErr)
    \/ \E name \in PetNames : UpdatePetCommitted(name)

SpecAttempts == AttemptsInit /\ [][AttemptsNext]_vars

\* attempt i is in the course of its accesses to the pet: it has not
\* returned, and a repository call of it is still to be carried out
Accessing(i) ==
    /\ exec[i].pc # "Returned"
    /\ ~(exec[i].timedOut /\ (impl = "postgres" \/ exec[i].pc = "Sync"))

\* C31: within the run no two attempts of its activities are at the same
\* time in the course of reading or writing the pet, attempts started
\* after an activity timeout included.
C31_NoConcurrentAttempts ==
    \A i, j \in DOMAIN exec : (Accessing(i) /\ Accessing(j)) => i = j

(***************************************************************************)
(* The startup of the API process followed by its create requests          *)
(* (specification SpecStartup).  Until Run has wired the handlers mode is  *)
(* "starting"; exec keeps the configuration Run was given: TemporalDisabled*)
(* and whether the Temporal frontend answered client.Dial.                 *)
(***************************************************************************)
\* Run, lines 102-116: the inline orchestrator when Temporal is disabled;
\* otherwise client.Dial, whose error ends Run ("connect temporal client")
selectPetWorkflows(temporalDisabled, reachable) ==
    IF temporalDisabled THEN "inline"
    ELSE IF reachable THEN "temporal"
    ELSE "exited"

\* Run up to the handlers
RunStartup(temporalDisabled, reachable) ==
    /\ mode = "starting"
    /\ mode' = selectPetWorkflows(temporalDisabled, reachable)
    /\ exec' = [TemporalDisabled |-> temporalDisabled, Reachable |-> reachable]
    /\ UNCHANGED <<storeVars, now, pets, req, runs, restVars>>

\* a create request arrives at the listening process
StartupBegin(r, input, trace) ==
    /\ mode \in {"inline", "temporal"}
    /\ Begin(r, input, trace)

StartupInit ==
    /\ records = << >> /\ table = << >> /\ now = 1
    /\ call = [c \in Callers |-> Idle]
    /\ impl = "memory" /\ translateError = FALSE
    /\ pets = << >>
    /\ exec = << >>
    /\ mode = "starting"
    /\ req = [r \in Requests |-> NoRequest]
    /\ runs = << >>
    /\ fingerprints = NoFingerprints
    /\ partner = NoPartnerCalls

StartupNext ==
    \/ \E temporalDisabled \in BOOLEAN, reachable \in BOOLEAN :
          RunStartup(temporalDisabled, reachable)
    \/ \E r \in Requests, i \in Inputs : StartupBegin(r, i[1], i[2])
    \/ \E r \in Requests, saveErr \in {ErrNone, ErrRepository} : InlineSave(r, saveErr)
    \/ \E r \in Requests, partnerErr \in {ErrNone, ErrPartner} : InlineSync(r, partnerErr)
    \/ \E r \in Requests, refuse \in BOOLEAN : ExecuteWorkflow(r, refuse)
    \/ \E w \in DOMAIN runs, exhausted \in BOOLEAN :
          ExecutePersistActivity(w, exhausted)
    \/ \E w \in DOMAIN runs,
          partnerErrs \in [1..SyncMaximumAttempts -> {ErrNone, ErrPartner}] :
              ExecuteSyncActivity(w, partnerErrs)
    \/ \E r \in Requests : AwaitRun(r)

SpecStartup == StartupInit /\ [][StartupNext]_vars

\* C32: a process started with the durable runtime unreachable or disabled
\* has selected the inline variant and serves CreatePet through it (no run
\* is ever started); the variant selected at startup is never replaced.
C32_InlineWhenUnreachableOrDisabled ==
    /\ [](mode # "starting"
            => /\ (exec.TemporalDisabled \/ ~exec.Reachable)
                    => mode = "inline" /\ runs = << >>
               /\ mode = "inline" => runs = << >>)
    /\ [][mode # "starting" => mode' = mode]_vars


\* C35: whenever the durable CreatePet returns a projection without error
\* for a command with a non-zero pet id, the projection's pet id is the
\* command's pet id, also when the call collapsed onto a run that already
\* existed under the same run identity.
C35_ReturnedPetIsTheCommandsPet ==
    \A r \in Requests :
        (mode = "temporal" /\ Answered(r) /\ req[r].run > 0
            /\ req[r].ret # Nil /\ req[r].err = ErrNone /\ req[r].input.ID # 0)
        => req[r].ret[1].Pet.ID = req[r].input.ID

(***************************************************************************)
(* The pet service called directly, with a partner adapter wired           *)
(* (specification SpecService): AddPet with a status, and GroomPet.  exec  *)
(* is the account of the last call: its arguments, the repository before   *)
(* it, what it returned and the Sync calls it made.                        *)
(***************************************************************************)
ErrInvalidHair == "hair length must be zero or positive"
ErrInvalidGrooming == "trim exceeds initial hair length"

\* what clients send as status: nothing, the three lifecycle values, another word
Statuses == {"", "available", "pending", "sold", "unknown"}
\* the pet the calls are about
ServicePets == {1}
HairLengths == {-1, 0, 2}
Trims == {0, 1, 3}

\* an AddPetInput that names a status
AddPetInputWithStatus(id, name, status) ==
    [ID |-> id, Name |-> name, Tags |-> Nil, ExternalReference |-> Nil,
     IdempotencyKey |-> "", Status |-> status]

\* an error handed back as it is
mapErrorPassThrough(err) == err

\* mapError: the validation errors of the domain are wrapped as ErrInvalidInput
mapError(err) ==
    IF err \in {ErrInvalidHair, ErrInvalidGrooming} THEN ErrInvalidInput ELSE err

\* Pet.UpdateHairLength
UpdateHairLength(p, length) ==
    IF length < 0 THEN [pet |-> p, err |-> ErrInvalidHair]
    ELSE [pet |-> [k \in DOMAIN p \cup {"HairLengthCm"} |->
                      IF k = "HairLengthCm" THEN length ELSE p[k]],
          err |-> ErrNone]

\* Pet.Groom
Groom(p, initialLengthCm, trimByCm) ==
    IF initialLengthCm < 0 \/ trimByCm < 0 THEN [pet |-> p, err |-> ErrInvalidHair]
    ELSE IF trimByCm > initialLengthCm THEN [pet |-> p, err |-> ErrInvalidGrooming]
    ELSE UpdateHairLength(p, initialLengthCm - trimByCm)

\* Service.saveAndSync on pet: repo.Save, then syncWithPartner on what was saved
saveAndSync(repo, pet, saveErr, partnerErr, t) ==
    LET stored == IF saveErr = ErrNone THEN RepoSave(repo, pet, t) ELSE repo
        afterSave == saveAndSyncAfterSave(
                         IF saveErr = ErrNone THEN Projection(stored, pet.ID) ELSE Nil,
                         mapError(saveErr))
        afterSync == saveAndSyncAfterSync(afterSave.ret, partnerErr)
    IN  IF afterSave.next = "return"
        THEN [pets |-> stored, ret |-> Nil, err |-> afterSave.err, syncCalls |-> 0]
        ELSE [pets |-> stored, ret |-> afterSync.ret, err |-> afterSync.err, syncCalls |-> 1]

\* a call that returned before the repository was written
ReturnedError(repo, err) == [pets |-> repo, ret |-> Nil, err |-> err, syncCalls |-> 0]

\* Service.AddPet
ServiceAddPet(input, saveErr, partnerErr) ==
    /\ now < MaxClock
    /\ LET built == buildPetFromMutation(input)
           out == IF built.err # ErrNone THEN ReturnedError(pets, built.err)
                  ELSE saveAndSync(pets, built.pet, saveErr, partnerErr, now)
       IN  /\ pets' = out.pets
           /\ exec' = [op |-> "AddPet", input |-> input, initial |-> 0, trim |-> 0,
                       before |-> pets, ret |-> out.ret, err |-> out.err,
                       syncCalls |-> out.syncCalls]
    /\ now' = now + 1
    /\ UNCHANGED <<storeVars, createVars, restVars>>

\* Service.GroomPet
ServiceGroomPet(id, initial, trim, saveErr, partnerErr) ==
    /\ now < MaxClock
    /\ LET got == RepoGetByID(pets, id)
           groomed == Groom(got.ret[1].Pet, initial, trim)
           out == IF got.err # ErrNone THEN ReturnedError(pets, mapError(got.err))
                  ELSE IF groomed.err # ErrNone THEN ReturnedError(pets, mapError(groomed.err))
                  ELSE saveAndSync(pets, groomed.pet, saveErr, partnerErr, now)
       IN  /\ pets' = out.pets
           /\ exec' = [op |-> "GroomPet", input |-> AddPetInputWithStatus(id, "", ""),
                       initial |-> initial, trim |-> trim,
                       before |-> pets, ret |-> out.ret, err |-> out.err,
                       syncCalls |-> out.syncCalls]
    /\ now' = now + 1
    /\ UNCHANGED <<storeVars, createVars, restVars>>

ServiceInit ==
    /\ records = << >> /\ table = << >> /\ now = 1
    /\ call = [c \in Callers |-> Idle]
    /\ impl = "memory" /\ translateError = FALSE
    /\ pets = << >>
    /\ exec = [op |-> "none", input |-> AddPetInputWithStatus(0, "", ""),
               initial |-> 0, trim |-> 0, before |-> << >>, ret |-> Nil,
               err |-> ErrNone, syncCalls |-> 0]
    /\ mode = "inline" /\ req = << >> /\ runs = << >>
    /\ fingerprints = NoFingerprints
    /\ partner = NoPartnerCalls

ServiceNext ==
    \/ \E id \in ServicePets, name \in {"Rex"}, status \in Statuses,
          saveErr \in {ErrNone, ErrRepository}, partnerErr \in {ErrNone, ErrPartner} :
              ServiceAddPet(AddPetInputWithStatus(id, name, status), saveErr, partnerErr)
    \/ \E id \in ServicePets, initial \in HairLengths, trim \in Trims,
          saveErr \in {ErrNone, ErrRepository}, partnerErr \in {ErrNone, ErrPartner} :
              ServiceGroomPet(id, initial, trim, saveErr, partnerErr)

SpecService == ServiceInit /\ [][ServiceNext]_vars

\* C33: an AddPet whose command names a status that is none of available,
\* pending, sold returns a validation error and leaves the repository as it
\* was.
C33_InvalidStatusRejected ==
    (exec.op = "AddPet" /\ exec.input.Status \notin {"", "available", "pending", "sold"})
        => /\ exec.err = ErrInvalidInput
           /\ exec.ret = Nil
           /\ pets = exec.before

\* C34: a GroomPet of a stored pet with a trim greater than the initial
\* hair length returns a validation error and no projection, makes no Sync
\* call and leaves the repository, so the stored pet, as it was.
C34_InvalidGroomingChangesNothing ==
    (exec.op = "GroomPet" /\ exec.trim > exec.initial
                          /\ exec.input.ID \in DOMAIN exec.before)
        => /\ exec.err = ErrInvalidInput
           /\ exec.ret = Nil
           /\ exec.syncCalls = 0
           /\ pets = exec.before

\* C34 (witness): the trim of 3 on an initial length of 2 was refused for
\* a pet that is stored
C34_TrimBeyondLengthRefused ==
    /\ exec.op = "GroomPet" /\ exec.initial = 2 /\ exec.trim = 3
    /\ exec.input.ID \in DOMAIN pets
    /\ exec.err = ErrInvalidInput

\* the pet of the run as the repository holds it, without its external
\* reference
StoredWithoutReference(repo) ==
    [f \in DOMAIN repo[AttemptInput.ID].Pet \ {"ExternalRef"} |->
        repo[AttemptInput.ID].Pet[f]]

\* C36: the hash write-back of the sync activity changes only the pet's
\* external reference: what the repository holds of the pet when the
\* activity saves, an update committed by another request after the
\* activity's GetByID included, is still there after the save.
C36_WriteBackKeepsOtherUpdates ==
    [][\A i \in DOMAIN exec :
          (exec[i].activity = "sync" /\ exec[i].pc = "Save"
              /\ exec'[i].pc = "Returned" /\ exec'[i].err = ErrNone)
          => StoredWithoutReference(pets') = StoredWithoutReference(pets)]_vars

(***************************************************************************)
(* The relational store on a table that also loses rows (specification     *)
(* SpecStorePurge): nothing in the repository deletes from                 *)
(* pet_idempotency_keys, a row vanishes only by what else works on the     *)
(* database.  Save's `existing == nil` branch is the case of a row that    *)
(* vanished between its INSERT and its SELECT.                             *)
(***************************************************************************)
\* the row of key is deleted from the table by another session
RowDeleted(key) ==
    /\ key \in DOMAIN table
    /\ table' = [k \in DOMAIN table \ {key} |-> table[k]]
    /\ UNCHANGED <<records, now, call, impl, translateError>>
    /\ UNCHANGED nonStoreVars

StorePurgeInit ==
    /\ StoreInit
    /\ impl = "postgres"

StorePurgeNext ==
    \/ \E c \in Callers, k \in Keys : PgGet(c, k)
    \/ \E c \in Callers, r \in NewRecords : PgSaveCall(c, r)
    \/ \E c \in Callers : PgCreate(c)
    \/ \E c \in Callers : PgLookup(c)
    \/ \E k \in Keys : RowDeleted(k)

SpecStorePurge == StorePurgeInit /\ [][StorePurgeNext]_vars

\* C37: every return of the relational store's Save carries a record or an
\* error, also when the insert hit a duplicated key and the lookup of that
\* key found no record.
C37_SaveReturnsRecordOrError ==
    \A c \in Callers :
        (impl = "postgres" /\ call[c].pc = "done" /\ call[c].op = "Save")
        => (call[c].ret # Nil \/ call[c].err # ErrNone)

(***************************************************************************)
(* The two stores given the same calls one after the other (specification  *)
(* SpecStoreBoth): every call is made on the in-memory store (records) and *)
(* on the relational store (table); exec holds what the two returned.      *)
(***************************************************************************)
\* postgres.IdempotencyStore.Save with no other caller at work
PgSaveResult(tbl, record, translate, t) ==
    LET err == GormCreateError(tbl, record.Key, translate)
        stamped == [record EXCEPT !.CreatedAt = t, !.UpdatedAt = t]
        compared == PgCompare(PgGetResult(tbl, record.Key), record)
    IN  IF err = ErrNone
        THEN [tbl |-> [k \in DOMAIN tbl \cup {record.Key} |->
                          IF k = record.Key THEN stamped ELSE tbl[k]],
              ret |-> Ptr(stamped), err |-> ErrNone]
        ELSE IF err = ErrDuplicatedKey
        THEN [tbl |-> tbl, ret |-> compared.ret, err |-> compared.err]
        ELSE [tbl |-> tbl, ret |-> Nil, err |-> err]

NoCalls == [op |-> "none", mem |-> [ret |-> Nil, err |-> ErrNone],
            pg |-> [ret |-> Nil, err |-> ErrNone]]

\* Get(key) on both stores
BothGet(key) ==
    /\ exec' = [op |-> "Get", mem |-> [ret |-> MemGetResult(records, key), err |-> ErrNone],
                pg |-> [ret |-> PgGetResult(table, key), err |-> ErrNone]]
    /\ UNCHANGED <<storeVars, now, pets, createVars, restVars>>

\* Save(record) on both stores
BothSave(record) ==
    /\ now < MaxClock
    /\ LET mem == MemSaveResult(records, record, now)
           pg == PgSaveResult(table, record, translateError, now)
       IN  /\ records' = mem.recs
           /\ table' = pg.tbl
           /\ exec' = [op |-> "Save", mem |-> [ret |-> mem.ret, err |-> mem.err],
                       pg |-> [ret |-> pg.ret, err |-> pg.err]]
    /\ now' = now + 1
    /\ UNCHANGED <<call, impl, translateError, pets, createVars, restVars>>

StoreBothInit ==
    /\ records = << >> /\ table = << >> /\ now = 1
    /\ call = [c \in Callers |-> Idle]
    /\ impl = "postgres" /\ translateError \in BOOLEAN
    /\ pets = << >>
    /\ exec = NoCalls
    /\ mode = "inline" /\ req = << >> /\ runs = << >>
    /\ fingerprints = NoFingerprints
    /\ partner = NoPartnerCalls

StoreBothNext ==
    \/ \E k \in Keys : BothGet(k)
    \/ \E r \in NewRecords : BothSave(r)

SpecStoreBoth == StoreBothInit /\ [][StoreBothNext]_vars

\* the two results show the same to the caller: a record or none, the
\* record's key, request hash and pet id, and the kind of the error
SameResult(a, b) ==
    /\ (a.ret = Nil) = (b.ret = Nil)
    /\ a.ret # Nil /\ b.ret # Nil
          => /\ a.ret[1].Key = b.ret[1].Key
             /\ a.ret[1].RequestHash = b.ret[1].RequestHash
             /\ a.ret[1].PetID = b.ret[1].PetID
    /\ a.err = b.err

\* C38: after any sequence of Get and Save calls made on both stores, the
\* in-memory and the relational store have returned the same result: the
\* same presence or absence of a record, the same key, request hash and
\* pet id, and the same error kind (none or IdempotencyConflict).
C38_StoresReturnTheSame ==
    SameResult(exec.mem, exec.pg)
====
